---- MODULE Spec2Model ----
(***************************************************************************)
(* CanvasCrawler: the tick orchestrator (core/Game.ts), the input manager, *)
(* the hostile state machine (Enemy) and the collision engine              *)
(* (core/Collision.ts).                                                    *)
(*                                                                         *)
(* Five specifications share the definitions below:                        *)
(*   Spec         the game: host calls, input events and the frame         *)
(*                callback, one action per step of gameLoop;               *)
(*   SpecLoop     the frame clock of a game that holds only a player;      *)
(*   SpecCol      Collision.checkAABB / rectOverlapsWalls /                *)
(*                resolveWallCollision on small integer rectangles, where  *)
(*                the arithmetic is exact;                                 *)
(*   SpecColFloat the same calls on rectangles whose sums are rounded;     *)
(*   SpecEnemy    one Enemy object driven through its public methods.      *)
(*                                                                         *)
(* Objects live in `heap` (reference -> fields); collections hold          *)
(* references, as the TypeScript arrays do.  Times are in milliseconds     *)
(* (deltaTime = 100 stands for 0.1 s).  Positions are not part of the      *)
(* state of Spec: the outcome of every geometric test of a tick (distance  *)
(* to the target, rectangle overlap, off-screen) is an input of the step   *)
(* that evaluates it.  Particles are purely cosmetic and are not part of   *)
(* the state of Spec either.                                               *)
(***************************************************************************)
EXTENDS Integers, Sequences, FiniteSets, TLC

(* ------------------------------ program constants --------------------- *)
ENEMY_COUNT == 5
AGGRO_RANGE == 300
DEAGGRO_RANGE == 500
CHASE_SPEED == 140
IDLE_SPEED == 40
SHOOT_COOLDOWN == 150
MAX_DELTA == 100
PLAYER_HP == 100
INVULN_DURATION == 500      \* 0.5 s, in milliseconds
PARTICLE_LIFE == 100        \* 1.0, in hundredths
PARTICLE_DECAY == 3         \* 0.03, in hundredths
WALL_THICKNESS == 20
OBSTACLE_SIZE == 60
OBSTACLE_MAX_ATTEMPTS == 20
OBSTACLE_CLEARANCE == 120
ENEMY_SIZE == 28
ENEMY_MAX_ATTEMPTS == 50
ENEMY_CLEARANCE == 200
PLAYER_SIZE == 32
ENEMY_HP == 3
CONTACT_DAMAGE == 10
PROJECTILE_DAMAGE == 1
KILL_SCORE == 10
KNOCKBACK_FORCE == 30
BORDER_WALLS == 4
MIN_OBSTACLES == 2

(* ------------------------------ bounds -------------------------------- *)
\* references handed out by `new` (players, hostiles, projectiles)
MaxIds == 13
\* milliseconds between the two clock readings of Spec
FrameStep == 100
\* clock readings of SpecLoop: 0, ShortGap, ShortGap + MAX_DELTA, MaxLoopTime
ShortGap == 16
MaxLoopTime == 366
\* hostiles a rectangle can overlap in one collision pass
MaxOverlap == 1
\* rectangles of SpecCol: positions 0..MaxPos, extents 0..MaxExtent
MaxPos == 2
MaxExtent == 2
\* SpecColFloat: significant bits of a number (53 in the program) and the
\* largest coordinate or extent of its rectangles
FloatBits == 3
MaxFloat == 10
MaxQuestCurrent == 7    \* kills counted by the quest model
MaxQuestTicks == 6      \* quest evaluations of the quest model
MaxLiveProjectiles == 2 \* projectiles in flight in the combat model
MaxShots == 4           \* projectiles fired in the combat model
MaxSimTicks == 6        \* ticks of the two-run model
MaxKnockTicks == 5      \* ticks of the knockback model

Min(a, b) == IF a < b THEN a ELSE b
Max(a, b) == IF a > b THEN a ELSE b
Abs(a) == IF a < 0 THEN -a ELSE a
Range(s) == {s[i] : i \in 1..Len(s)}

VARIABLES
    heap,               \* reference -> object fields
    nextId,             \* next fresh reference
    entities,           \* Game.entities
    entitiesToAdd,      \* Game.entitiesToAdd
    entitiesToRemove,   \* Game.entitiesToRemove
    walls,              \* Game.walls
    player,             \* Game.player (0: null)
    score,              \* Game.score
    isGameOver,         \* Game.isGameOver
    running,            \* Game.running
    lastTimestamp,      \* Game.lastTimestamp
    animationFrameId,   \* Game.animationFrameId (0: none)
    rafQueue,           \* frame callbacks the host has pending
    clock,              \* the host clock (performance.now / frame timestamp)
    mouseJustPressed,   \* InputManager.mouseJustPressed
    keys,               \* InputManager.keys
    listening,          \* InputManager: the event listeners are installed
    pressState,         \* what became of the left presses since the last
                        \* tick: "none", "pending" or "dropped"
    pc,                 \* position inside gameLoop ("idle": between ticks)
    deltaTime,          \* gameLoop's deltaTime of the current tick
    phases,             \* steps the current tick has executed, in order
    updated,            \* references whose update ran in the current tick
    collided,           \* references a collision check read in the current tick
    atBegin,            \* references flagged destroyed when the tick began
    rectE, rectW,       \* SpecCol: the entity and the wall rectangles
    colOp, colPre, colRet,  \* SpecCol: last call, entity before it, its result
    offset,             \* SpecEnemy: target center minus hostile center
    eOp, ePre,          \* SpecEnemy: last call and the hostile before it
    eArg, eRet,         \* last call on one object: its argument, its result
    hitTimes,           \* SpecPlayer: the times at which a hit was applied
    particle,           \* SpecParticle: one Particle
    particle0,          \* the particle as constructed
    updates,            \* the number of its updates so far
    stage,              \* SpecSpawn: the placement loop that is running
    numObstacles,       \* generateLevel: obstacleCount, the obstacles to place
    placeI,             \* the index i of the running for loop
    attempts,           \* the attempts of the running do-while loop
    cand,               \* the candidate <<x, y>> drawn last
    lastPlaced,         \* the placement made by the last step, if any
    quest,              \* SpecQuest: target, current, completed
    notifications,      \* the completion notifications emitted so far
    questTicks,         \* the quest evaluations made so far
    damaged,            \* SpecCombat: the <<projectile, hostile>> pairs of
                        \* the takeDamage calls of the last collision pass
    liveAtPass,         \* the projectiles that pass started with
    wallHit,            \* the projectiles a wall destroyed in that pass
    passHits,           \* the overlapping pairs that pass was given
    runClock,           \* SpecRuns: performance.now() of each of two runs
    simTime,            \* the sum of the delta times, the same in both
    runApplied,         \* whether the last takeDamage of a run returned true
    simTicks,           \* the ticks made so far
    pos,                \* SpecKnock: position (top left) of each entity
    vel,                \* velocity of each entity, pixels per second
    prePos,             \* the positions before the last pass or call
    knockTicks,         \* the ticks and calls made so far
    particles,          \* SpecSession: Game.particles, in array order
    tracked,            \* the index in particles of one particle that is
                        \* followed from its addition on, 0 if none
    removed,            \* the entities removeEntity was called with; a
                        \* restart that uses a name again takes it out
    shooter,            \* SpecShoot: the simulated time, the time of the
                        \* last shot, the gap between the last two shots
                        \* and the projectiles the last update added
    flight              \* SpecFlight: one projectile, its position and
                        \* velocity, its flag and where the game holds it

gameVars == <<heap, nextId, entities, entitiesToAdd, entitiesToRemove, walls,
              player, score, isGameOver, running, lastTimestamp,
              animationFrameId, rafQueue, clock, mouseJustPressed, keys,
              listening, pressState, pc,
              deltaTime, phases, updated, collided, atBegin>>
colVars == <<rectE, rectW, colOp, colPre, colRet>>
particleVars == <<particle, particle0, updates>>
spawnVars == <<stage, numObstacles, placeI, attempts, cand, lastPlaced>>
questVars == <<quest, notifications, questTicks>>
combatVars == <<damaged, liveAtPass, wallHit, passHits>>
runsVars == <<runClock, simTime, runApplied, simTicks>>
knockVars == <<pos, vel, prePos, knockTicks>>
sessionVars == <<particles, tracked, removed>>
lateVars == <<sessionVars, shooter, flight>>
unitVars == <<hitTimes, particleVars, spawnVars, questVars, combatVars,
              runsVars, knockVars, lateVars>>
enemyVars == <<offset, eOp, ePre, eArg, eRet, unitVars>>
vars == <<gameVars, colVars, enemyVars>>

(* ------------------------------ objects ------------------------------- *)
Refs == 1..MaxIds

NullObj ==
    [kind |-> "none", destroyed |-> FALSE, hp |-> 0, state |-> "IDLE",
     speed |-> 0, wasRecentlyDamaged |-> FALSE, target |-> 0,
     shootCooldown |-> 0, lastHitTime |-> 0, game |-> FALSE]

\* new Player(x, y)
NewPlayer ==
    [NullObj EXCEPT !.kind = "Player", !.hp = PLAYER_HP, !.speed = 250]

\* new Enemy(x, y)
NewEnemy ==
    [NullObj EXCEPT !.kind = "Enemy", !.hp = ENEMY_HP, !.speed = IDLE_SPEED]

\* new Projectile(x, y, angle)
NewProjectile ==
    [NullObj EXCEPT !.kind = "Projectile", !.speed = 600]

\* Entity.destroy
EntityDestroy(e) == [e EXCEPT !.destroyed = TRUE]

(* ------------------------------ Enemy --------------------------------- *)
\* getDistanceToTarget() < r and > r, on the squares: off is the vector
\* between the two centers, distanceTo is sqrt(dx*dx + dy*dy)
DistanceLessOrEqual(off, r) == off[1] * off[1] + off[2] * off[2] <= r * r
DistanceGreaterOrEqual(off, r) == off[1] * off[1] + off[2] * off[2] >= r * r

DistanceLess(off, r) == off[1] * off[1] + off[2] * off[2] < r * r
DistanceGreater(off, r) == off[1] * off[1] + off[2] * off[2] > r * r

\* a state change that leaves the speed as it was
EnemySetStateKeepsSpeed(e, newState) ==
    IF e.state = newState THEN e ELSE [e EXCEPT !.state = newState]

\* Enemy.setState
EnemySetState(e, newState) ==
    IF e.state = newState THEN e
    ELSE [e EXCEPT !.state = newState,
                   !.speed = IF newState = "CHASE" THEN CHASE_SPEED
                             ELSE IDLE_SPEED]

\* damage that destroys at zero hit points and leaves them as subtracted
EnemyTakeDamageUnclamped(e, amount) ==
    LET e1 == [e EXCEPT !.hp = e.hp - amount, !.wasRecentlyDamaged = TRUE]
        e2 == IF e1.state = "IDLE" THEN EnemySetState(e1, "CHASE") ELSE e1
    IN  IF e2.hp <= 0 THEN EntityDestroy(e2) ELSE e2

\* Enemy.takeDamage
EnemyTakeDamage(e, amount) ==
    LET e1 == [e EXCEPT !.hp = e.hp - amount, !.wasRecentlyDamaged = TRUE]
        e2 == IF e1.state = "IDLE" THEN EnemySetState(e1, "CHASE") ELSE e1
    IN  IF e2.hp <= 0 THEN EntityDestroy([e2 EXCEPT !.hp = 0]) ELSE e2

\* state transitions decided by the distance alone
EnemyTransitionByDistance(e, off) ==
    IF e.state = "IDLE"
    THEN IF DistanceLess(off, AGGRO_RANGE)
         THEN EnemySetState(e, "CHASE") ELSE e
    ELSE IF DistanceGreater(off, DEAGGRO_RANGE)
         THEN EnemySetState(e, "IDLE") ELSE e

\* the state transitions of Enemy.update with a live target at offset off
EnemyTransition(e, off) ==
    IF e.state = "IDLE"
    THEN IF DistanceLess(off, AGGRO_RANGE) \/ e.wasRecentlyDamaged
         THEN EnemySetState(e, "CHASE") ELSE e
    ELSE IF DistanceGreater(off, DEAGGRO_RANGE) /\ ~e.wasRecentlyDamaged
         THEN EnemySetState(e, "IDLE") ELSE e

\* an update that leaves a just-damaged hostile without target as it is
EnemyUpdateLatchKeepsState(e, liveTarget, off) ==
    IF ~liveTarget
    THEN IF e.wasRecentlyDamaged THEN e ELSE EnemySetState(e, "IDLE")
    ELSE [EnemyTransition(e, off) EXCEPT !.wasRecentlyDamaged = FALSE]

\* Enemy.update; liveTarget: this.target is set and not destroyed
EnemyUpdate(e, liveTarget, off) ==
    IF ~liveTarget THEN EnemySetState(e, "IDLE")
    ELSE [EnemyTransition(e, off) EXCEPT !.wasRecentlyDamaged = FALSE]

(* ------------------------------ number arithmetic --------------------- *)
\* A number of the program is an IEEE-754 double: the result of + and - is
\* rounded to the nearest number with 53 significant bits, ties to even.
\* The model keeps FloatBits significant bits; integers below 2^FloatBits
\* and their sums and differences below that bound are exact.
RECURSIVE Pow2(_)
Pow2(k) == IF k = 0 THEN 1 ELSE 2 * Pow2(k - 1)

RECURSIVE BitLen(_)
BitLen(n) == IF n = 0 THEN 0 ELSE 1 + BitLen(n \div 2)

FlPos(n) ==
    LET u == IF n < Pow2(FloatBits) THEN 1 ELSE Pow2(BitLen(n) - FloatBits)
        q == n \div u
        r == n % u
    IN  IF 2 * r < u \/ (2 * r = u /\ q % 2 = 0) THEN q * u ELSE (q + 1) * u

Fl(n) == IF n < 0 THEN -FlPos(-n) ELSE FlPos(n)

(* ------------------------------ Collision ----------------------------- *)
\* a rectangle: position.x, position.y, width, height
Rect(x, y, w, h) == [x |-> x, y |-> y, width |-> w, height |-> h]

\* the overlap test with one comparison that accepts a touching edge
CheckAABBLoose(a, b) ==
    /\ a.x <= Fl(b.x + b.width)
    /\ Fl(a.x + a.width) > b.x
    /\ a.y < Fl(b.y + b.height)
    /\ Fl(a.y + a.height) > b.y

\* Collision.checkAABB
CheckAABB(a, b) ==
    /\ a.x < Fl(b.x + b.width)
    /\ Fl(a.x + a.width) > b.x
    /\ a.y < Fl(b.y + b.height)
    /\ Fl(a.y + a.height) > b.y

\* the overlap test with comparisons that accept touching edges
RectOverlapsWallsLoose(x, y, width, height, ws) ==
    \E i \in DOMAIN ws :
        /\ x <= Fl(ws[i].x + ws[i].width)
        /\ Fl(x + width) >= ws[i].x
        /\ y <= Fl(ws[i].y + ws[i].height)
        /\ Fl(y + height) >= ws[i].y

\* Collision.rectOverlapsWalls
RectOverlapsWalls(x, y, width, height, ws) ==
    \E i \in DOMAIN ws :
        /\ x < Fl(ws[i].x + ws[i].width)
        /\ Fl(x + width) > ws[i].x
        /\ y < Fl(ws[i].y + ws[i].height)
        /\ Fl(y + height) > ws[i].y

\* the signed exit with the signs exchanged
MinOverlapWrongSign(lo, hi) == IF lo < hi THEN lo ELSE -hi

\* overlapLeft < overlapRight ? -overlapLeft : overlapRight
MinOverlap(lo, hi) == IF lo < hi THEN -lo ELSE hi

\* the choice of the axis with ties going to X
PushAlongXOnTie(minOverlapX, minOverlapY) ==
    Abs(minOverlapX) <= Abs(minOverlapY)

\* Math.abs(minOverlapX) < Math.abs(minOverlapY)
PushAlongX(minOverlapX, minOverlapY) == Abs(minOverlapX) < Abs(minOverlapY)

\* a resolution without the early return for pairs that do not overlap
ResolveWallCollisionAlways(entity, wall) ==
    LET entityRight == Fl(entity.x + entity.width)
        entityBottom == Fl(entity.y + entity.height)
        wallRight == Fl(wall.x + wall.width)
        wallBottom == Fl(wall.y + wall.height)
        minOverlapX == MinOverlap(Fl(entityRight - wall.x),
                                  Fl(wallRight - entity.x))
        minOverlapY == MinOverlap(Fl(entityBottom - wall.y),
                                  Fl(wallBottom - entity.y))
    IN  [entity |-> IF PushAlongX(minOverlapX, minOverlapY)
                    THEN [entity EXCEPT !.x = Fl(@ + minOverlapX)]
                    ELSE [entity EXCEPT !.y = Fl(@ + minOverlapY)],
         ret |-> TRUE]

\* Collision.resolveWallCollision: the entity after the call and its result
ResolveWallCollision(entity, wall) ==
    IF ~CheckAABB(entity, wall) THEN [entity |-> entity, ret |-> FALSE]
    ELSE LET entityRight == Fl(entity.x + entity.width)
             entityBottom == Fl(entity.y + entity.height)
             wallRight == Fl(wall.x + wall.width)
             wallBottom == Fl(wall.y + wall.height)
             overlapLeft == Fl(entityRight - wall.x)
             overlapRight == Fl(wallRight - entity.x)
             overlapTop == Fl(entityBottom - wall.y)
             overlapBottom == Fl(wallBottom - entity.y)
             minOverlapX == MinOverlap(overlapLeft, overlapRight)
             minOverlapY == MinOverlap(overlapTop, overlapBottom)
         IN  [entity |-> IF PushAlongX(minOverlapX, minOverlapY)
                         THEN [entity EXCEPT !.x = Fl(@ + minOverlapX)]
                         ELSE [entity EXCEPT !.y = Fl(@ + minOverlapY)],
              ret |-> TRUE]

(* ------------------------------ Player -------------------------------- *)
\* damage that destroys at zero hit points and leaves them as subtracted
PlayerTakeDamageUnclamped(p, amount, invulnerable) ==
    IF invulnerable THEN p
    ELSE LET p1 == [p EXCEPT !.hp = p.hp - amount]
         IN  IF p1.hp <= 0 THEN EntityDestroy(p1) ELSE p1

\* Player.takeDamage; invulnerable: the value of isInvulnerable()
PlayerTakeDamage(p, amount, invulnerable) ==
    IF invulnerable THEN p
    ELSE LET p1 == [p EXCEPT !.hp = p.hp - amount]
         IN  IF p1.hp <= 0 THEN EntityDestroy([p1 EXCEPT !.hp = 0]) ELSE p1

\* the invulnerability test with the window measured from time 0
PlayerIsInvulnerableFromZero(p, now) == now < INVULN_DURATION

\* Player.isInvulnerable at performance.now() = now; times in milliseconds
PlayerIsInvulnerable(p, now) == now - p.lastHitTime < INVULN_DURATION

\* Player.takeDamage at performance.now() = now: the player afterwards
PlayerTakeDamageAt(p, amount, now) ==
    IF PlayerIsInvulnerable(p, now) THEN p
    ELSE [PlayerTakeDamage(p, amount, FALSE) EXCEPT !.lastHitTime = now]

\* Player.update: the cooldown after the decrement, and whether it shoots
PlayerCooldown(p, dt) == Max(0, p.shootCooldown - dt)

\* a shot on every press
PlayerShootsOnPress(p, dt, pressed) == pressed

PlayerShoots(p, dt, pressed) == pressed /\ PlayerCooldown(p, dt) <= 0

(* ------------------------------ Quest --------------------------------- *)
\* the combat-resolution step counts a qualifying kill
QuestKill(q) == [q EXCEPT !.current = q.current + 1]

\* an evaluation that notifies whenever current >= target
QuestNotifiesEveryTick(q) == q.current >= q.target

\* the per-tick evaluation emits the notification on the completion edge:
\* current >= target and completed not yet set
QuestNotifies(q) == q.current >= q.target /\ ~q.completed

\* the per-tick evaluation: current >= target sets completed
QuestEvaluate(q) ==
    IF q.current >= q.target THEN [q EXCEPT !.completed = TRUE] ELSE q

(* ------------------------------ Particle ------------------------------ *)
\* an update that destroys only below zero
ParticleUpdateBelowZero(p) ==
    LET life == p.life - p.decay
    IN  [p EXCEPT !.life = life,
                  !.destroyed = IF life < 0 THEN TRUE ELSE p.destroyed]

\* Particle.update: the life and the destroyed flag (position and velocity
\* are not modelled)
ParticleUpdate(p) ==
    LET life == p.life - p.decay
    IN  [p EXCEPT !.life = life,
                  !.destroyed = IF life <= 0 THEN TRUE ELSE p.destroyed]

(* ------------------------------ Game: collections --------------------- *)
\* the part of the game an operation rewrites
World(h, n, q, u) == [heap |-> h, nextId |-> n, toAdd |-> q, updated |-> u]

\* Game.addEntity of a newly constructed object
AddEntity(w, obj) ==
    World([w.heap EXCEPT ![w.nextId] = [obj EXCEPT !.game = TRUE]],
          w.nextId + 1, Append(w.toAdd, w.nextId), w.updated)

\* references the game can still reach; the others are garbage
Reachable(h, ents, q, rem, pl) ==
    LET direct == (Range(ents) \cup Range(q) \cup rem \cup {pl}) \ {0}
    IN  direct \cup ({h[r].target : r \in direct} \ {0})

Collect(h, ents, q, rem, pl) ==
    [r \in Refs |-> IF r \in Reachable(h, ents, q, rem, pl) THEN h[r]
                    ELSE NullObj]

Live(h, ents, k) ==
    SelectSeq(ents, LAMBDA r : h[r].kind = k /\ ~h[r].destroyed)

Destroyed(h) == {r \in Refs : h[r].destroyed}

(* ------------------------------ Game: level --------------------------- *)
\* Game.generateLevel: four border walls and 2 or 3 obstacles
GenerateLevel(obstacleCount) ==
    [i \in 1..(BORDER_WALLS + obstacleCount) |->
        IF i <= BORDER_WALLS THEN "border" ELSE "obstacle"]

\* Game.spawnEnemies: n more hostiles that target pl, through addEntity
RECURSIVE SpawnLoop(_, _, _)
SpawnLoop(w, pl, n) ==
    IF n = 0 THEN w
    ELSE SpawnLoop(AddEntity(w, [NewEnemy EXCEPT !.target = pl]), pl, n - 1)

SpawnEnemies(w, pl) == IF pl = 0 THEN w ELSE SpawnLoop(w, pl, ENEMY_COUNT)

(* ------------------------------ Game: placement loops ----------------- *)
\* the canvas of the placement model, in CSS pixels
CanvasWidth == 800
CanvasHeight == 600

\* Collision.rectOverlapsWalls on integer coordinates, whose sums are exact
RectOverlapsWallsExact(x, y, width, height, ws) ==
    \E i \in DOMAIN ws :
        /\ x < ws[i].x + ws[i].width
        /\ x + width > ws[i].x
        /\ y < ws[i].y + ws[i].height
        /\ y + height > ws[i].y

\* Math.sqrt(Math.pow(dx, 2) + Math.pow(dy, 2)) > r, on the squares
FartherThan(dx, dy, r) == dx * dx + dy * dy > r * r

\* generateLevel: the four border walls
BorderWalls ==
    <<Rect(0, 0, CanvasWidth, WALL_THICKNESS),
      Rect(0, CanvasHeight - WALL_THICKNESS, CanvasWidth, WALL_THICKNESS),
      Rect(0, 0, WALL_THICKNESS, CanvasHeight),
      Rect(CanvasWidth - WALL_THICKNESS, 0, WALL_THICKNESS, CanvasHeight)>>

\* generateLevel: the break test of the obstacle loop
ObstacleSpotValid(x, y) ==
    FartherThan(x + OBSTACLE_SIZE \div 2 - CanvasWidth \div 2,
                y + OBSTACLE_SIZE \div 2 - CanvasHeight \div 2,
                OBSTACLE_CLEARANCE)

\* the center of the player, created in the middle of the canvas
PlayerCenter ==
    <<CanvasWidth \div 2 - PLAYER_SIZE \div 2 + PLAYER_SIZE \div 2,
      CanvasHeight \div 2 - PLAYER_SIZE \div 2 + PLAYER_SIZE \div 2>>

\* a break test that looks at the distance to the player only
EnemySpotValidIgnoringWalls(x, y, ws) ==
    FartherThan(x + ENEMY_SIZE \div 2 - PlayerCenter[1],
                y + ENEMY_SIZE \div 2 - PlayerCenter[2],
                ENEMY_CLEARANCE)

\* spawnEnemies: the break test of the hostile loop
EnemySpotValid(x, y, ws) ==
    /\ FartherThan(x + ENEMY_SIZE \div 2 - PlayerCenter[1],
                   y + ENEMY_SIZE \div 2 - PlayerCenter[2],
                   ENEMY_CLEARANCE)
    /\ ~RectOverlapsWallsExact(x, y, ENEMY_SIZE, ENEMY_SIZE, ws)

\* a loop condition that allows one more attempt
LoopContinuesOnceMore(a, maxAttempts) == a <= maxAttempts

\* the condition of the do-while loops: attempts < maxAttempts
LoopContinues(a, maxAttempts) == a < maxAttempts

(* ------------------------------ Game: update pass --------------------- *)
\* entity.update(dt) of the object at r; off: the offset every hostile
\* measures to its target, gone: the projectiles that are off-screen
UpdateOne(w0, r, dt, pressed, off, gone) ==
    LET e == w0.heap[r]
        w == [w0 EXCEPT !.updated = @ \cup {r}]
    IN  IF e.kind = "Player"
        THEN LET shoots == PlayerShoots(e, dt, pressed)
                 w1 == IF shoots /\ e.game THEN AddEntity(w, NewProjectile)
                       ELSE w
                 cd == IF shoots THEN SHOOT_COOLDOWN ELSE PlayerCooldown(e, dt)
             IN  [w1 EXCEPT !.heap[r].shootCooldown = cd]
        ELSE IF e.kind = "Enemy"
        THEN LET live == e.target # 0 /\ ~w.heap[e.target].destroyed
             IN  [w EXCEPT !.heap[r] = EnemyUpdate(e, live, off)]
        ELSE IF e.kind = "Projectile" /\ r \in gone
        THEN [w EXCEPT !.heap[r] = EntityDestroy(e)]
        ELSE w

\* the update pass without the test of the destroyed flag
RECURSIVE UpdateAllNoSkip(_, _, _, _, _, _, _)
UpdateAllNoSkip(w, ents, i, dt, pressed, off, gone) ==
    IF i > Len(ents) THEN w
    ELSE UpdateAllNoSkip(UpdateOne(w, ents[i], dt, pressed, off, gone),
                         ents, i + 1, dt, pressed, off, gone)

\* for (const entity of this.entities) if (!entity.destroyed) entity.update(dt)
RECURSIVE UpdateAll(_, _, _, _, _, _, _)
UpdateAll(w, ents, i, dt, pressed, off, gone) ==
    IF i > Len(ents) THEN w
    ELSE UpdateAll(IF w.heap[ents[i]].destroyed THEN w
                   ELSE UpdateOne(w, ents[i], dt, pressed, off, gone),
                   ents, i + 1, dt, pressed, off, gone)

\* the filter without the test of the pending-remove set
CompactedDestroyedOnly(h, ents, rem) ==
    SelectSeq(ents, LAMBDA r : ~h[r].destroyed)

\* this.entities.filter(e => !e.destroyed && !this.entitiesToRemove.has(e))
Compacted(h, ents, rem) ==
    SelectSeq(ents, LAMBDA r : ~h[r].destroyed /\ r \notin rem)

(* ------------------------------ Game: collision pass ------------------ *)
\* Projectile vs Wall: the projectiles of hitWall overlap a wall
ProjectileVsWall(h, projs, hitWall) ==
    [r \in Refs |-> IF r \in Range(projs) /\ r \in hitWall
                    THEN EntityDestroy(h[r]) ELSE h[r]]

\* a score awarded on every hit
KillAwardEveryHit(e) == KILL_SCORE

\* if (enemy.hp <= 0) this.score += 10: the points a hit on e brings, e
\* being the hostile after takeDamage
KillAward(e) == IF e.hp <= 0 THEN KILL_SCORE ELSE 0

\* Projectile vs Enemy, the inner loop: projectile p against enemies[j..];
\* st.damaged collects the pairs of the takeDamage calls
RECURSIVE HitLoop(_, _, _, _, _)
HitLoop(st, p, enemies, j, hits) ==
    IF j > Len(enemies) THEN st
    ELSE LET e == enemies[j]
             hit == ~st.heap[e].destroyed /\ <<p, e>> \in hits
             h1 == [st.heap EXCEPT
                       ![p] = EntityDestroy(@),
                       ![e] = EnemyTakeDamage(@, PROJECTILE_DAMAGE)]
             st1 == IF ~hit THEN st
                    ELSE [heap |-> h1,
                          score |-> st.score + KillAward(h1[e]),
                          damaged |-> st.damaged \cup {<<p, e>>}]
         IN  HitLoop(st1, p, enemies, j + 1, hits)

\* Projectile vs Enemy, the outer loop over projs[i..]
RECURSIVE ProjectileVsEnemy(_, _, _, _, _)
ProjectileVsEnemy(st, projs, enemies, i, hits) ==
    IF i > Len(projs) THEN st
    ELSE ProjectileVsEnemy(
            IF st.heap[projs[i]].destroyed THEN st
            ELSE HitLoop(st, projs[i], enemies, 1, hits),
            projs, enemies, i + 1, hits)

\* Enemy vs Player, the loop over enemies[j..]: the first call of
\* takeDamage finds isInvulnerable() = inv, and a hit it applies makes the
\* player invulnerable for the calls that follow in the same pass
RECURSIVE EnemyVsPlayer(_, _, _, _, _, _)
EnemyVsPlayer(h, pl, enemies, j, touch, inv) ==
    IF j > Len(enemies) THEN h
    ELSE LET e == enemies[j]
             hit == ~h[e].destroyed /\ e \in touch
             h1 == [h EXCEPT ![pl] = PlayerTakeDamage(@, CONTACT_DAMAGE, inv)]
         IN  IF hit THEN EnemyVsPlayer(h1, pl, enemies, j + 1, touch, TRUE)
             ELSE EnemyVsPlayer(h, pl, enemies, j + 1, touch, inv)

\* the references whose rectangle a check of the pass reads
CollisionReads(h0, h1, h2, pl, projs, enemies, nWalls) ==
    LET plLive == pl # 0 /\ ~h0[pl].destroyed
        wallPass == IF nWalls = 0 THEN {}
                    ELSE (IF plLive THEN {pl} ELSE {})
                         \cup Range(enemies) \cup Range(projs)
        projPass == {r \in Range(projs) : ~h1[r].destroyed}
        enemyPass == IF projPass = {} THEN {} ELSE Range(enemies)
        plPass == IF pl # 0 /\ ~h2[pl].destroyed
                  THEN {e \in Range(enemies) : ~h2[e].destroyed}
                  ELSE {}
    IN  wallPass \cup (IF Range(enemies) = {} THEN {} ELSE projPass)
        \cup enemyPass \cup plPass \cup (IF plPass = {} THEN {} ELSE {pl})

(* ------------------------------ the host ------------------------------ *)
\* frame timestamps and performance.now() readings of Spec
Timestamps == {0, FrameStep}

\* the centers' offsets a tick of Spec hands to the hostiles
Offsets == {<<250, 0>>, <<501, 0>>}

\* requestAnimationFrame: a handle that is neither pending nor the stored one
NewFrameId ==
    CHOOSE i \in 1..3 : i \notin rafQueue /\ \A j \in 1..(i - 1) : j \in rafQueue

RectIdle == Rect(0, 0, 0, 0)

ColIdle ==
    /\ rectE = RectIdle /\ rectW = RectIdle
    /\ colOp = "none" /\ colPre = RectIdle /\ colRet = FALSE

\* new Particle(x, y, velocity, color, size, life, decay); life and decay
\* in hundredths
NewParticle(life, decay) ==
    [life |-> life, decay |-> decay, destroyed |-> FALSE]

ParticleIdle ==
    /\ particle = NewParticle(0, 0) /\ particle0 = NewParticle(0, 0)
    /\ updates = 0

\* no placement: the value of lastPlaced after a step that places nothing
NoPlacement ==
    [kind |-> "none", x |-> 0, y |-> 0, attempts |-> 0, broke |-> FALSE]

SpawnIdle ==
    /\ stage = "none" /\ numObstacles = 0 /\ placeI = 0
    /\ attempts = 0 /\ cand = <<0, 0>> /\ lastPlaced = NoPlacement

\* a quest with its target count
NewQuest(target) == [target |-> target, current |-> 0, completed |-> FALSE]

QuestIdle == quest = NewQuest(0) /\ notifications = 0 /\ questTicks = 0

KnockIdle == pos = <<>> /\ vel = <<>> /\ prePos = <<>> /\ knockTicks = 0

SessionIdle == particles = <<>> /\ tracked = 0 /\ removed = {}

ShooterIdle == [clock |-> 0, lastShot |-> -1, gap |-> -1, fired |-> 0]

FlightIdle ==
    [pos |-> <<0, 0>>, vel |-> <<0, 0>>, destroyed |-> FALSE,
     where |-> "none"]

LateIdle == SessionIdle /\ shooter = ShooterIdle /\ flight = FlightIdle

RunsIdle ==
    /\ runClock = <<0, 0>> /\ simTime = 0
    /\ runApplied = <<FALSE, FALSE>> /\ simTicks = 0

CombatIdle ==
    damaged = {} /\ liveAtPass = {} /\ wallHit = {} /\ passHits = {}

UnitIdle ==
    /\ hitTimes = {} /\ ParticleIdle /\ SpawnIdle /\ QuestIdle
    /\ CombatIdle /\ RunsIdle /\ KnockIdle /\ LateIdle

EnemyIdle ==
    /\ offset = <<0, 0>> /\ eOp = "none" /\ ePre = NullObj
    /\ eArg = 0 /\ eRet = FALSE
    /\ UnitIdle

\* the state after new Game(canvas)
GameInit ==
    /\ heap = [r \in Refs |-> NullObj]
    /\ nextId = 1
    /\ entities = <<>> /\ entitiesToAdd = <<>> /\ entitiesToRemove = {}
    /\ walls = <<>> /\ player = 0 /\ score = 0 /\ isGameOver = FALSE
    /\ running = FALSE /\ lastTimestamp = 0
    /\ animationFrameId = 0 /\ rafQueue = {}
    /\ clock = 0 /\ mouseJustPressed = FALSE /\ keys = {}
    /\ listening = TRUE /\ pressState = "none"
    /\ pc = "idle" /\ deltaTime = 0 /\ phases = <<>>
    /\ updated = {} /\ collided = {} /\ atBegin = {}

Init == GameInit /\ ColIdle /\ EnemyIdle

inputVars == <<mouseJustPressed, keys, listening, pressState>>
loopVars == <<running, lastTimestamp, animationFrameId, rafQueue, clock>>
tickVars == <<pc, deltaTime, phases, updated, collided, atBegin>>
otherVars == <<colVars, enemyVars>>

\* the host creates the player: game.addEntity(player); game.setPlayer(player)
HostAddPlayer ==
    /\ pc = "idle" /\ ~running /\ player = 0 /\ nextId <= MaxIds
    /\ LET w == AddEntity(World(heap, nextId, entitiesToAdd, {}), NewPlayer)
       IN  /\ heap' = w.heap /\ nextId' = w.nextId /\ entitiesToAdd' = w.toAdd
           /\ player' = nextId
    /\ UNCHANGED <<entities, entitiesToRemove, walls, score, isGameOver,
                   loopVars, inputVars, tickVars, otherVars>>

\* Game.initLevel
InitLevel ==
    /\ pc = "idle" /\ ~running /\ walls = <<>>
    /\ nextId + ENEMY_COUNT - 1 <= MaxIds
    /\ \E n \in {MIN_OBSTACLES, MIN_OBSTACLES + 1} :
          walls' = GenerateLevel(n)
    /\ LET w == SpawnEnemies(World(heap, nextId, entitiesToAdd, {}), player)
       IN  heap' = w.heap /\ nextId' = w.nextId /\ entitiesToAdd' = w.toAdd
    /\ UNCHANGED <<entities, entitiesToRemove, player, score, isGameOver,
                   loopVars, inputVars, tickVars, otherVars>>

\* Game.start; now: performance.now()
Start(now) ==
    /\ pc = "idle" /\ now >= clock
    /\ IF running
       THEN UNCHANGED loopVars
       ELSE /\ running' = TRUE
            /\ lastTimestamp' = now /\ clock' = now
            /\ animationFrameId' = NewFrameId
            /\ rafQueue' = rafQueue \cup {NewFrameId}
    /\ UNCHANGED <<heap, nextId, entities, entitiesToAdd, entitiesToRemove,
                   walls, player, score, isGameOver, inputVars, tickVars,
                   otherVars>>

\* Game.removeEntity
RemoveEntity(r) ==
    /\ pc = "idle"
    /\ entitiesToRemove' = entitiesToRemove \cup {r}
    /\ UNCHANGED <<heap, nextId, entities, entitiesToAdd, walls, player,
                   score, isGameOver, loopVars, inputVars, tickVars,
                   otherVars>>

\* InputManager.handleMouseDown, left button
MouseDown ==
    /\ pc = "idle" /\ listening
    /\ mouseJustPressed' = TRUE
    /\ pressState' = "pending"
    /\ UNCHANGED <<heap, nextId, entities, entitiesToAdd, entitiesToRemove,
                   walls, player, score, isGameOver, loopVars, keys, listening,
                   tickVars, otherVars>>

\* InputManager.handleKeyDown / handleKeyUp
KeyDown(k) ==
    /\ pc = "idle" /\ listening
    /\ keys' = keys \cup {k}
    /\ UNCHANGED <<heap, nextId, entities, entitiesToAdd, entitiesToRemove,
                   walls, player, score, isGameOver, loopVars,
                   mouseJustPressed, listening, pressState, tickVars, otherVars>>

KeyUp(k) ==
    /\ pc = "idle" /\ listening
    /\ keys' = keys \ {k}
    /\ UNCHANGED <<heap, nextId, entities, entitiesToAdd, entitiesToRemove,
                   walls, player, score, isGameOver, loopVars,
                   mouseJustPressed, listening, pressState, tickVars, otherVars>>

\* a stop that leaves the requested frame pending
CancelFrameNot(q, id) == q

\* Game.stop: cancelAnimationFrame of the stored handle, if there is one
CancelFrame(q, id) == IF id # 0 THEN q \ {id} ELSE q

\* Game.stop
Stop ==
    /\ pc = "idle"
    /\ running' = FALSE
    /\ rafQueue' = CancelFrame(rafQueue, animationFrameId)
    /\ animationFrameId' = 0
    /\ UNCHANGED <<heap, nextId, entities, entitiesToAdd, entitiesToRemove,
                   walls, player, score, isGameOver, lastTimestamp, clock,
                   inputVars, tickVars, otherVars>>

\* Game.destroy: stop(), InputManager.destroy() (listeners removed, keys
\* and mouse flags cleared), and the collections emptied
Destroy ==
    /\ pc = "idle"
    /\ running' = FALSE
    /\ rafQueue' = CancelFrame(rafQueue, animationFrameId)
    /\ animationFrameId' = 0
    /\ listening' = FALSE /\ keys' = {} /\ mouseJustPressed' = FALSE
    /\ pressState' = IF pressState = "pending" THEN "dropped" ELSE pressState
    /\ entities' = <<>> /\ entitiesToAdd' = <<>> /\ entitiesToRemove' = {}
    /\ walls' = <<>> /\ player' = 0
    /\ heap' = Collect(heap, <<>>, <<>>, {}, 0)
    /\ UNCHANGED <<nextId, score, isGameOver, lastTimestamp, clock, tickVars,
                   otherVars>>

(* ------------------------------ the frame callback -------------------- *)
\* Math.min((timestamp - this.lastTimestamp) / 1000, 0.1), in milliseconds
DeltaTimeUnclamped(timestamp, last) == timestamp - last

DeltaTime(timestamp, last) == Min(timestamp - last, MAX_DELTA)

\* the statement order of gameLoop and update after the update pass: the
\* step that follows each step of a tick
StepAfterSwapped(step) ==
    CASE step = "entities" -> "collisions"
      [] step = "collisions" -> "compact"
      [] step = "compact" -> "render"
      [] OTHER -> "idle"

StepAfter(step) ==
    CASE step = "entities" -> "compact"
      [] step = "compact" -> "collisions"
      [] step = "collisions" -> "render"
      [] OTHER -> "idle"

\* Game.restart, called by update when the game is over and 'r' is down
Restart(obstacleCount) ==
    LET w1 == AddEntity(World(heap, nextId, <<>>, {}), NewPlayer)
        w2 == SpawnEnemies(w1, nextId)
    IN  /\ entities' = <<>> /\ entitiesToRemove' = {}
        /\ score' = 0 /\ isGameOver' = FALSE
        /\ player' = nextId
        /\ walls' = GenerateLevel(obstacleCount)
        /\ entitiesToAdd' = w2.toAdd /\ nextId' = w2.nextId
        /\ heap' = Collect(w2.heap, <<>>, w2.toAdd, {}, nextId)

\* gameLoop(timestamp) up to the first step of update(deltaTime): the
\* restart check when the game is over, otherwise the flush of entitiesToAdd
GameLoop(f, timestamp) ==
    /\ pc = "idle" /\ f \in rafQueue /\ timestamp >= clock
    /\ rafQueue' = rafQueue \ {f}
    /\ clock' = timestamp
    /\ UNCHANGED <<running, animationFrameId, inputVars, otherVars>>
    /\ IF ~running
       THEN UNCHANGED <<heap, nextId, entities, entitiesToAdd,
                        entitiesToRemove, walls, player, score, isGameOver,
                        lastTimestamp, tickVars>>
       ELSE /\ deltaTime' = DeltaTime(timestamp, lastTimestamp)
            /\ lastTimestamp' = timestamp
            /\ updated' = {} /\ collided' = {}
            /\ atBegin' = Destroyed(heap)
            /\ IF isGameOver
               THEN /\ phases' = <<>>
                    /\ pc' = "collisions"
                    /\ IF "r" \in keys
                       THEN /\ nextId + ENEMY_COUNT <= MaxIds
                            /\ \E n \in {MIN_OBSTACLES, MIN_OBSTACLES + 1} :
                                  Restart(n)
                       ELSE UNCHANGED <<heap, nextId, entities, entitiesToAdd,
                                        entitiesToRemove, walls, player, score,
                                        isGameOver>>
               ELSE /\ phases' = <<"flush">>
                    /\ pc' = "entities"
                    /\ entities' = entities \o entitiesToAdd
                    /\ entitiesToAdd' = <<>>
                    /\ UNCHANGED <<heap, nextId, entitiesToRemove, walls,
                                   player, score, isGameOver>>

\* a check that never finds the player dead
GameOverCheckNever(h, pl) == FALSE

\* update(dt): if (this.player && this.player.hp <= 0)
GameOverCheck(h, pl) == pl # 0 /\ h[pl].hp <= 0

\* update(dt): the update pass over the entities and the game-over check
UpdateEntities(off, gone) ==
    /\ pc = "entities"
    /\ nextId <= MaxIds
    /\ LET w == UpdateAll(World(heap, nextId, entitiesToAdd, {}), entities, 1,
                          deltaTime, mouseJustPressed, off, gone)
       IN  /\ heap' = w.heap /\ nextId' = w.nextId
           /\ entitiesToAdd' = w.toAdd /\ updated' = w.updated
           /\ isGameOver' = (isGameOver \/ GameOverCheck(w.heap, player))
    /\ phases' = Append(phases, "update")
    /\ pc' = StepAfter(pc)
    /\ UNCHANGED <<entities, entitiesToRemove, walls, player, score, loopVars,
                   inputVars, deltaTime, collided, atBegin, otherVars>>

\* update(dt): remove destroyed entities, clear entitiesToRemove
RemoveDestroyed ==
    /\ pc = "compact"
    /\ entities' = Compacted(heap, entities, entitiesToRemove)
    /\ entitiesToRemove' = {}
    /\ heap' = Collect(heap, entities', entitiesToAdd, {}, player)
    /\ phases' = Append(phases, "compact")
    /\ pc' = StepAfter(pc)
    /\ UNCHANGED <<nextId, entitiesToAdd, walls, player, score, isGameOver,
                   loopVars, inputVars, deltaTime, updated, collided, atBegin,
                   otherVars>>

\* if (!this.isGameOver) this.checkCollisions(); hitWall: the projectiles
\* that overlap a wall, hits: the <<projectile, hostile>> pairs that overlap,
\* touch: the hostiles that overlap the player, inv: isInvulnerable()
CheckCollisions(hitWall, hits, touch, inv) ==
    /\ pc = "collisions"
    /\ pc' = StepAfter(pc)
    /\ UNCHANGED <<nextId, entities, entitiesToAdd, entitiesToRemove, walls,
                   player, isGameOver, loopVars, inputVars, deltaTime, updated,
                   atBegin, otherVars>>
    /\ IF isGameOver
       THEN UNCHANGED <<heap, score, collided, phases>>
       ELSE LET projs == Live(heap, entities, "Projectile")
                enemies == Live(heap, entities, "Enemy")
                h1 == ProjectileVsWall(heap, projs,
                         IF walls = <<>> THEN {} ELSE hitWall)
                st == ProjectileVsEnemy(
                         [heap |-> h1, score |-> score, damaged |-> {}],
                         projs, enemies, 1, hits)
                h3 == IF player # 0 /\ ~st.heap[player].destroyed
                      THEN EnemyVsPlayer(st.heap, player, enemies, 1, touch,
                                         inv)
                      ELSE st.heap
            IN  /\ heap' = h3
                /\ score' = st.score
                /\ collided' = CollisionReads(heap, h1, st.heap, player,
                                   projs, enemies, Len(walls))
                /\ phases' = Append(phases, "collisions")

\* an endFrame that leaves the flag as it is
EndFrameKeeps == mouseJustPressed

\* InputManager.endFrame: the value it gives to mouseJustPressed
EndFrame == FALSE

\* this.render(); this.input.endFrame(); requestAnimationFrame(this.gameLoop)
RenderEndFrame ==
    /\ pc = "render"
    /\ phases' = Append(phases, "render")
    /\ mouseJustPressed' = EndFrame
    /\ pressState' = "none"
    /\ animationFrameId' = NewFrameId
    /\ rafQueue' = rafQueue \cup {NewFrameId}
    /\ pc' = StepAfter(pc)
    /\ UNCHANGED <<heap, nextId, entities, entitiesToAdd, entitiesToRemove,
                   walls, player, score, isGameOver, running, lastTimestamp,
                   clock, keys, listening, deltaTime, updated, collided,
                   atBegin, otherVars>>

(* ------------------------------ Spec: the game ------------------------ *)
\* The inputs of a tick.  Hostiles are interchangeable, so the rectangles
\* that overlap a hostile overlap the first live ones in iteration order.
LiveProjectiles == Range(Live(heap, entities, "Projectile"))
FirstLive(n) ==
    LET live == Live(heap, entities, "Enemy")
    IN  {live[i] : i \in 1..Min(n, Len(live))}

\* the host removes projectiles, pending or live
Removable ==
    {r \in Range(entities) \cup Range(entitiesToAdd) :
        heap[r].kind = "Projectile"}

Next ==
    \/ HostAddPlayer
    \/ InitLevel
    \/ \E now \in Timestamps : Start(now)
    \/ \E r \in Removable : RemoveEntity(r)
    \/ MouseDown
    \/ KeyDown("r")
    \/ KeyUp("r")
    \/ \E f \in rafQueue, ts \in Timestamps : GameLoop(f, ts)
    \/ \E off \in Offsets, gone \in SUBSET LiveProjectiles :
          UpdateEntities(off, gone)
    \/ RemoveDestroyed
    \/ \E hitWall \in SUBSET LiveProjectiles,
          hitters \in SUBSET LiveProjectiles,
          targets \in SUBSET FirstLive(MaxOverlap),
          touch \in SUBSET FirstLive(MaxOverlap),
          inv \in BOOLEAN :
          CheckCollisions(hitWall, hitters \X targets, touch, inv)
    \/ RenderEndFrame

Spec == Init /\ [][Next]_vars

\* C1: an entity in the pending-add buffer is not in the live collection, and
\* no update pass and no collision check touches it before the next flush
C1_PendingIsolated ==
    \A r \in Range(entitiesToAdd) :
        r \notin Range(entities) /\ r \notin updated /\ r \notin collided

\* C2: an entity destroyed before a tick began is skipped by that tick's
\* update pass and collision pass, and a destroyed entity leaves the live
\* collection only in the compaction step
C2_DestroyedSkipped ==
    /\ [](updated \cap atBegin = {} /\ collided \cap atBegin = {})
    /\ [][\A r \in Range(entities) :
             (heap[r].destroyed /\ r \notin Range(entities')) => pc = "compact"]_vars

\* C2, its case: the update pass of a tick has run while the live collection
\* held an entity that was destroyed before the tick began
C2_Witness ==
    /\ pc = "compact" /\ updated # {}
    /\ Range(entities) \cap atBegin # {}

Rects ==
    {Rect(x, y, w, h) : x \in 0..MaxPos, y \in 0..MaxPos,
                        w \in 0..MaxExtent, h \in 0..MaxExtent}

InitCol ==
    /\ GameInit /\ EnemyIdle
    /\ rectE \in Rects /\ rectW \in Rects
    /\ colOp = "none" /\ colPre = rectE /\ colRet = FALSE

\* Collision.checkAABB(entity, wall)
CallCheckAABB ==
    /\ colOp' = "checkAABB" /\ colPre' = rectE
    /\ colRet' = CheckAABB(rectE, rectW)
    /\ UNCHANGED <<rectE, rectW, gameVars, enemyVars>>

\* Collision.rectOverlapsWalls(x, y, width, height, [wall])
CallRectOverlapsWalls ==
    /\ colOp' = "rectOverlapsWalls" /\ colPre' = rectE
    /\ colRet' = RectOverlapsWalls(rectE.x, rectE.y, rectE.width,
                                   rectE.height, <<rectW>>)
    /\ UNCHANGED <<rectE, rectW, gameVars, enemyVars>>

\* Collision.resolveWallCollision(entity, wall)
CallResolveWallCollision ==
    /\ colOp' = "resolveWallCollision" /\ colPre' = rectE
    /\ LET r == ResolveWallCollision(rectE, rectW)
       IN  rectE' = r.entity /\ colRet' = r.ret
    /\ UNCHANGED <<rectW, gameVars, enemyVars>>

NextCol ==
    \/ CallCheckAABB
    \/ CallRectOverlapsWalls
    \/ CallResolveWallCollision

SpecCol == InitCol /\ [][NextCol]_vars

\* C6: checkAABB is symmetric: for rectangles of any positions and any
\* non-negative extents checkAABB(a, b) = checkAABB(b, a)
C6_CheckAABBSymmetric ==
    colOp = "checkAABB" => colRet = CheckAABB(rectW, colPre)

\* C6, its case: a call on two different rectangles that overlap, one of them
\* without width
C6_Witness ==
    /\ colOp = "checkAABB" /\ colRet
    /\ rectE # rectW /\ rectE.width = 0 /\ rectW.width > 0

\* C7 as stated: checkAABB (and rectOverlapsWalls) is true exactly when on
\* both axes the intervals [pos, pos + extent] intersect in a segment of
\* nonzero length
C7_OverlapIffIntersection ==
    colOp \in {"checkAABB", "rectOverlapsWalls"} =>
        (colRet <=>
            /\ Min(colPre.x + colPre.width, rectW.x + rectW.width)
                  - Max(colPre.x, rectW.x) > 0
            /\ Min(colPre.y + colPre.height, rectW.y + rectW.height)
                  - Max(colPre.y, rectW.y) > 0)

\* C7, amended: for rectangles of positive width and height checkAABB (and
\* rectOverlapsWalls) is true exactly when on both axes the intervals
\* intersect in a segment of nonzero length, so rectangles that only touch
\* are not overlapping; a rectangle without width or height that lies
\* strictly inside the other's extent is reported as overlapping
C7_OverlapIffIntersectionPositive ==
    colOp \in {"checkAABB", "rectOverlapsWalls"} =>
        LET lenX == Min(colPre.x + colPre.width, rectW.x + rectW.width)
                       - Max(colPre.x, rectW.x)
            lenY == Min(colPre.y + colPre.height, rectW.y + rectW.height)
                       - Max(colPre.y, rectW.y)
            positive == /\ colPre.width > 0 /\ colPre.height > 0
                        /\ rectW.width > 0 /\ rectW.height > 0
        IN  /\ positive => (colRet <=> (lenX > 0 /\ lenY > 0))
            /\ (colRet /\ ~(lenX > 0 /\ lenY > 0)) =>
                  \/ (colPre.width = 0 /\ rectW.x < colPre.x
                        /\ colPre.x < rectW.x + rectW.width)
                  \/ (rectW.width = 0 /\ colPre.x < rectW.x
                        /\ rectW.x < colPre.x + colPre.width)
                  \/ (colPre.height = 0 /\ rectW.y < colPre.y
                        /\ colPre.y < rectW.y + rectW.height)
                  \/ (rectW.height = 0 /\ colPre.y < rectW.y
                        /\ rectW.y < colPre.y + colPre.height)

\* C7, its case: a call on two rectangles of positive extents that touch
\* along an edge and overlap on the other axis
C7_Witness ==
    /\ colOp = "checkAABB" /\ ~colRet
    /\ colPre.width > 0 /\ colPre.height > 0
    /\ rectW.width > 0 /\ rectW.height > 0
    /\ colPre.x + colPre.width = rectW.x
    /\ colPre.y < rectW.y + rectW.height /\ rectW.y < colPre.y + colPre.height

\* C31: resolveWallCollision returns true exactly when the pair overlapped
\* before the call; on a pair that does not overlap it returns false and
\* leaves the entity as it was; no call changes the wall
C31_NoOverlapNoOp ==
    /\ [](colOp = "resolveWallCollision" =>
            LET overlapped == /\ colPre.x < rectW.x + rectW.width
                              /\ colPre.x + colPre.width > rectW.x
                              /\ colPre.y < rectW.y + rectW.height
                              /\ colPre.y + colPre.height > rectW.y
            IN  /\ colRet <=> overlapped
                /\ ~overlapped => rectE = colPre)
    /\ [][colOp' = "resolveWallCollision" => rectW' = rectW]_vars

\* C31, its case: a call on an entity and a wall of positive extents that
\* touch along an edge has returned false and moved nothing
C31_Witness ==
    /\ colOp = "resolveWallCollision" /\ ~colRet
    /\ colPre.width > 0 /\ colPre.height > 0
    /\ rectW.width > 0 /\ rectW.height > 0
    /\ colPre.x + colPre.width = rectW.x /\ colPre.y = rectW.y
    /\ rectE = colPre

\* C8 as stated: a call on an overlapping pair moves the entity along one
\* axis only, the one of the smaller absolute penetration, by that
\* penetration, and along X when the two absolute penetrations are equal
C8_TiesFavourX ==
    (colOp = "resolveWallCollision" /\ colRet) =>
        LET left == colPre.x + colPre.width - rectW.x
            right == rectW.x + rectW.width - colPre.x
            top == colPre.y + colPre.height - rectW.y
            bottom == rectW.y + rectW.height - colPre.y
            dx == IF left < right THEN -left ELSE right
            dy == IF top < bottom THEN -top ELSE bottom
        IN  IF Abs(dx) <= Abs(dy)
            THEN rectE = [colPre EXCEPT !.x = @ + dx] /\ rectE.x # colPre.x
            ELSE rectE = [colPre EXCEPT !.y = @ + dy] /\ rectE.y # colPre.y

\* C8, amended: a call on an overlapping pair changes exactly one coordinate
\* of the entity: it moves the entity along the axis of the smaller absolute
\* penetration, by that penetration toward the shallower exit, and along Y
\* when the two absolute penetrations are equal
C8_TiesFavourY ==
    (colOp = "resolveWallCollision" /\ colRet) =>
        LET left == colPre.x + colPre.width - rectW.x
            right == rectW.x + rectW.width - colPre.x
            top == colPre.y + colPre.height - rectW.y
            bottom == rectW.y + rectW.height - colPre.y
            dx == IF left < right THEN -left ELSE right
            dy == IF top < bottom THEN -top ELSE bottom
        IN  IF Abs(dx) < Abs(dy)
            THEN rectE = [colPre EXCEPT !.x = @ + dx] /\ rectE.x # colPre.x
            ELSE rectE = [colPre EXCEPT !.y = @ + dy] /\ rectE.y # colPre.y

\* C8, its case: a call on a pair whose absolute penetrations are equal
C8_Witness ==
    /\ colOp = "resolveWallCollision" /\ colRet
    /\ Min(colPre.x + colPre.width - rectW.x, rectW.x + rectW.width - colPre.x)
          = Min(colPre.y + colPre.height - rectW.y,
                rectW.y + rectW.height - colPre.y)
    /\ rectE.y # colPre.y

(* ------------------------------ SpecColFloat: rounded arithmetic ------ *)
\* coordinates and extents of SpecColFloat: the numbers up to MaxFloat
FloatValues == {n \in 0..MaxFloat : Fl(n) = n}

\* the rectangles of SpecColFloat: a pair of them overlaps deeply on one
\* axis and takes all positions and extents on the other
FloatRects ==
    {Rect(x, 0, w, MaxFloat) : x \in FloatValues, w \in FloatValues}
    \cup {Rect(0, y, MaxFloat, h) : y \in FloatValues, h \in FloatValues}

InitColFloat ==
    /\ GameInit /\ EnemyIdle
    /\ rectE \in FloatRects /\ rectW \in FloatRects
    /\ colOp = "none" /\ colPre = rectE /\ colRet = FALSE

SpecColFloat == InitColFloat /\ [][NextCol]_vars

\* C9 as stated: after resolveWallCollision has returned true the pair does
\* not overlap (the entity's edge at most touches the obstacle's), and a
\* second call on the pair returns false and moves nothing
C9_ResolvedThenSeparate ==
    (colOp = "resolveWallCollision" /\ colRet) =>
        /\ ~CheckAABB(rectE, rectW)
        /\ ResolveWallCollision(rectE, rectW) = [entity |-> rectE, ret |-> FALSE]

\* C9, amended: after resolveWallCollision has returned true on a pair for
\* which no sum or difference of the call and of the check that follows is
\* rounded (as for small integer coordinates), the pair does not overlap,
\* the entity's edge touches the obstacle's, and a second call returns false
\* and moves nothing; with rounding an overlap can remain
C9_ExactThenSeparate ==
    (colOp = "resolveWallCollision" /\ colRet) =>
        LET left == colPre.x + colPre.width - rectW.x
            right == rectW.x + rectW.width - colPre.x
            top == colPre.y + colPre.height - rectW.y
            bottom == rectW.y + rectW.height - colPre.y
            values == {colPre.x + colPre.width, colPre.y + colPre.height,
                       rectW.x + rectW.width, rectW.y + rectW.height,
                       left, right, top, bottom,
                       colPre.x - left, colPre.x + right,
                       colPre.y - top, colPre.y + bottom,
                       rectE.x + rectE.width, rectE.y + rectE.height}
        IN  (\A n \in values : Fl(n) = n) =>
               /\ ~CheckAABB(rectE, rectW)
               /\ ResolveWallCollision(rectE, rectW)
                     = [entity |-> rectE, ret |-> FALSE]
               /\ \/ rectE.x + rectE.width = rectW.x
                  \/ rectE.x = rectW.x + rectW.width
                  \/ rectE.y + rectE.height = rectW.y
                  \/ rectE.y = rectW.y + rectW.height

\* C9, its case: a call has separated a pair whose sums need more than
\* FloatBits bits only where the call does not compute them
C9_Witness ==
    /\ colOp = "resolveWallCollision" /\ colRet
    /\ colPre.x + colPre.width >= Pow2(FloatBits)
    /\ Fl(colPre.x + colPre.width) = colPre.x + colPre.width
    /\ rectE.x # colPre.x
    /\ ~CheckAABB(rectE, rectW)

(* ------------------------------ SpecEnemy: one hostile ---------------- *)
\* the hostile and the two players a host can hand it as target
TheEnemy == 1
Targets == {2, 3}

\* target center minus hostile center at an update: distances 250, 299,
\* 300 (on and off the axis), 301, 400, 500, 501 and 1000
EnemyOffsets ==
    {<<AGGRO_RANGE - 50, 0>>, <<AGGRO_RANGE - 1, 0>>, <<AGGRO_RANGE, 0>>,
     <<180, 240>>, <<0, AGGRO_RANGE + 1>>, <<-400, 0>>, <<DEAGGRO_RANGE, 0>>,
     <<0, -(DEAGGRO_RANGE + 1)>>, <<-1000, 0>>}

\* the amounts handed to takeDamage: 1, 2 and more than all hit points
DamageAmounts == {PROJECTILE_DAMAGE, 2, ENEMY_HP + 1}

InitEnemy ==
    /\ heap = [r \in Refs |-> IF r = TheEnemy THEN NewEnemy
                              ELSE IF r \in Targets THEN NewPlayer
                              ELSE NullObj]
    /\ nextId = 4
    /\ entities = <<>> /\ entitiesToAdd = <<>> /\ entitiesToRemove = {}
    /\ walls = <<>> /\ player = 0 /\ score = 0 /\ isGameOver = FALSE
    /\ running = FALSE /\ lastTimestamp = 0
    /\ animationFrameId = 0 /\ rafQueue = {}
    /\ clock = 0 /\ mouseJustPressed = FALSE /\ keys = {}
    /\ listening = TRUE /\ pressState = "none"
    /\ pc = "idle" /\ deltaTime = 0 /\ phases = <<>>
    /\ updated = {} /\ collided = {} /\ atBegin = {}
    /\ ColIdle /\ EnemyIdle

enemyRest == <<nextId, entities, entitiesToAdd, entitiesToRemove, walls,
               player, score, isGameOver, loopVars, inputVars, tickVars,
               colVars, unitVars>>

\* enemy.setTarget(p)
CallSetTarget(p) ==
    /\ eOp' = "setTarget" /\ ePre' = heap[TheEnemy]
    /\ eArg' = p /\ eRet' = FALSE
    /\ heap' = [heap EXCEPT ![TheEnemy].target = p]
    /\ UNCHANGED <<offset, enemyRest>>

\* enemy.takeDamage(amount)
CallTakeDamage(amount) ==
    /\ eOp' = "takeDamage" /\ ePre' = heap[TheEnemy]
    /\ eArg' = amount /\ eRet' = FALSE
    /\ heap' = [heap EXCEPT ![TheEnemy] = EnemyTakeDamage(@, amount)]
    /\ UNCHANGED <<offset, enemyRest>>

\* enemy.update(dt) with the target, if any, at offset off
CallUpdate(off) ==
    /\ eOp' = "update" /\ ePre' = heap[TheEnemy] /\ offset' = off
    /\ eArg' = 0 /\ eRet' = FALSE
    /\ LET e == heap[TheEnemy]
           live == e.target # 0 /\ ~heap[e.target].destroyed
       IN  heap' = [heap EXCEPT ![TheEnemy] = EnemyUpdate(e, live, off)]
    /\ UNCHANGED enemyRest

\* p.destroy() of a player
TargetDestroy(p) ==
    /\ ~heap[p].destroyed
    /\ eOp' = "destroy" /\ ePre' = heap[TheEnemy]
    /\ eArg' = p /\ eRet' = FALSE
    /\ heap' = [heap EXCEPT ![p] = EntityDestroy(@)]
    /\ UNCHANGED <<offset, enemyRest>>

NextEnemy ==
    \/ \E p \in Targets : CallSetTarget(p)
    \/ \E amount \in DamageAmounts : CallTakeDamage(amount)
    \/ \E off \in EnemyOffsets : CallUpdate(off)
    \/ \E p \in Targets : TargetDestroy(p)

SpecEnemy == InitEnemy /\ [][NextEnemy]_vars

\* C10: one update of a hostile in IDLE with a live target leaves it in
\* CHASE if and only if the distance between the centers is less than 300
\* or the just-damaged latch is set; with the latch clear distance 250 gives
\* CHASE, distances 300 and 301 leave it IDLE
C10_IdleToChase ==
    (/\ eOp = "update" /\ ePre.state = "IDLE"
     /\ ePre.target # 0 /\ ~heap[ePre.target].destroyed) =>
        LET d2 == offset[1] * offset[1] + offset[2] * offset[2]
            e == heap[TheEnemy]
        IN  /\ e.state = "CHASE" <=> (d2 < 300 * 300 \/ ePre.wasRecentlyDamaged)
            /\ (~ePre.wasRecentlyDamaged /\ d2 = 250 * 250) => e.state = "CHASE"
            /\ (~ePre.wasRecentlyDamaged /\ d2 \in {300 * 300, 301 * 301})
                  => e.state = "IDLE"

\* C10, its case: a hostile in IDLE with the latch set and a live target
\* 301 away has been updated
C10_Witness ==
    /\ eOp = "update" /\ ePre.state = "IDLE" /\ ePre.wasRecentlyDamaged
    /\ ePre.target # 0 /\ ~heap[ePre.target].destroyed
    /\ offset = <<0, AGGRO_RANGE + 1>>
    /\ heap[TheEnemy].state = "CHASE"

\* the last call was an update that found a set, undestroyed target
UpdatedWithLiveTarget ==
    /\ eOp = "update"
    /\ ePre.target # 0 /\ ~heap[ePre.target].destroyed

\* the squared distance between the centers at the last update
OffsetSquared == offset[1] * offset[1] + offset[2] * offset[2]

C12_NoTargetForcesIdle ==
    (eOp = "update" /\ (ePre.target = 0 \/ heap[ePre.target].destroyed)) =>
        /\ heap[TheEnemy].state = "IDLE"
        /\ heap[TheEnemy] = EnemySetState(ePre, "IDLE")
        /\ heap[TheEnemy].speed = IDLE_SPEED

\* C12, its case: a hostile in CHASE with the latch set, whose target is
\* destroyed, has been updated and is in IDLE
C12_Witness ==
    /\ eOp = "update"
    /\ ePre.state = "CHASE" /\ ePre.wasRecentlyDamaged
    /\ ePre.target # 0 /\ heap[ePre.target].destroyed
    /\ heap[TheEnemy].state = "IDLE"

\* C24: after every return of Enemy.update the just-damaged latch is clear
C24_LatchClearAfterUpdate ==
    eOp = "update" => ~heap[TheEnemy].wasRecentlyDamaged

\* C25: the speed of the hostile is the chase speed exactly when its state
\* is CHASE and the idle speed exactly when its state is IDLE, after
\* construction and after every takeDamage, setTarget and update
C25_SpeedFollowsState ==
    LET e == heap[TheEnemy]
    IN  /\ e.state \in {"IDLE", "CHASE"}
        /\ e.speed = CHASE_SPEED <=> e.state = "CHASE"
        /\ e.speed = IDLE_SPEED <=> e.state = "IDLE"

\* C25, its case: a hostile that takeDamage had put in CHASE at 140 has
\* been forced to IDLE at 40 by an update without a target
C25_Witness ==
    /\ eOp = "update" /\ ePre.target = 0
    /\ ePre.state = "CHASE" /\ ePre.speed = CHASE_SPEED
    /\ ePre.wasRecentlyDamaged
    /\ heap[TheEnemy].state = "IDLE" /\ heap[TheEnemy].speed = IDLE_SPEED

\* the hostile's target is set and not destroyed
HasLiveTarget ==
    /\ heap[TheEnemy].target # 0
    /\ ~heap[heap[TheEnemy].target].destroyed

\* C13: takeDamage leaves the hostile in CHASE with the latch set; the
\* update that follows the damage, made with a live target at any distance
\* (1000 included), ends in CHASE and clears the latch; and an update with a
\* live target takes a hostile from CHASE to IDLE only if the latch was
\* clear before it
C13_DamageForcesChase ==
    /\ [](eOp = "takeDamage" =>
            /\ heap[TheEnemy].wasRecentlyDamaged
            /\ heap[TheEnemy].state = "CHASE")
    /\ [][(eOp = "takeDamage" /\ eOp' = "update" /\ HasLiveTarget) =>
            /\ heap'[TheEnemy].state = "CHASE"
            /\ ~heap'[TheEnemy].wasRecentlyDamaged]_vars
    /\ [][(/\ eOp' = "update" /\ HasLiveTarget
           /\ heap[TheEnemy].state = "CHASE"
           /\ heap'[TheEnemy].state = "IDLE") =>
            ~heap[TheEnemy].wasRecentlyDamaged]_vars

\* C13, its case: a just-damaged hostile has been updated with a live
\* target 1000 away and is in CHASE, its latch cleared
C13_Witness ==
    /\ UpdatedWithLiveTarget
    /\ ePre.wasRecentlyDamaged /\ ~ePre.destroyed
    /\ offset = <<-1000, 0>>
    /\ heap[TheEnemy].state = "CHASE"
    /\ ~heap[TheEnemy].wasRecentlyDamaged

\* C14: takeDamage(amount) with amount > 0 leaves the hit points at the
\* larger of 0 and the difference, sets the latch on every call, and the
\* hostile is destroyed after the call exactly when its hit points are 0;
\* the hit points of the hostile are always from 0 to its initial 3
C14_DamageClamped ==
    /\ heap[TheEnemy].hp >= 0 /\ heap[TheEnemy].hp <= 3
    /\ eOp = "takeDamage" =>
          /\ eArg > 0
          /\ heap[TheEnemy].hp =
                (IF ePre.hp - eArg < 0 THEN 0 ELSE ePre.hp - eArg)
          /\ heap[TheEnemy].wasRecentlyDamaged
          /\ heap[TheEnemy].destroyed <=> heap[TheEnemy].hp = 0

\* C14, its case: a hostile with 2 hit points and the latch clear has
\* taken damage 4: it has 0 hit points, is destroyed and latched
C14_Witness ==
    /\ eOp = "takeDamage" /\ eArg = ENEMY_HP + 1
    /\ ePre.hp = 2 /\ ~ePre.wasRecentlyDamaged /\ ~ePre.destroyed
    /\ heap[TheEnemy].hp = 0
    /\ heap[TheEnemy].destroyed
    /\ heap[TheEnemy].wasRecentlyDamaged

(* ------------------------------ SpecPlayer: damage to the player ------ *)
ThePlayer == 1

\* readings of performance.now(): around one and two windows after 0, and
\* around one window after a hit at 600
PlayerTimes ==
    {0, INVULN_DURATION - 1, INVULN_DURATION, INVULN_DURATION + 100,
     2 * INVULN_DURATION - 1, 2 * INVULN_DURATION,
     2 * INVULN_DURATION + 99, 2 * INVULN_DURATION + 100,
     3 * INVULN_DURATION}

\* the amounts handed to Player.takeDamage
PlayerDamageAmounts == {CONTACT_DAMAGE, PLAYER_HP - CONTACT_DAMAGE}

\* one Player, created at time 0
InitPlayer ==
    /\ heap = [r \in Refs |-> IF r = ThePlayer THEN NewPlayer ELSE NullObj]
    /\ nextId = 2
    /\ entities = <<>> /\ entitiesToAdd = <<>> /\ entitiesToRemove = {}
    /\ walls = <<>> /\ player = 0 /\ score = 0 /\ isGameOver = FALSE
    /\ running = FALSE /\ lastTimestamp = 0
    /\ animationFrameId = 0 /\ rafQueue = {}
    /\ clock = 0 /\ mouseJustPressed = FALSE /\ keys = {}
    /\ listening = TRUE /\ pressState = "none"
    /\ pc = "idle" /\ deltaTime = 0 /\ phases = <<>>
    /\ updated = {} /\ collided = {} /\ atBegin = {}
    /\ ColIdle /\ EnemyIdle

playerRest == <<nextId, entities, entitiesToAdd, entitiesToRemove, walls,
                player, score, isGameOver, running, lastTimestamp,
                animationFrameId, rafQueue, inputVars, tickVars, colVars,
                offset, particleVars, spawnVars, questVars, lateVars, combatVars,
                runsVars, knockVars>>

\* time passes: performance.now() grows
ClockAdvance(t) ==
    /\ t > clock
    /\ clock' = t /\ eOp' = "clock"
    /\ UNCHANGED <<heap, ePre, eArg, eRet, hitTimes, playerRest>>

\* player.takeDamage(amount); returns whether the damage was applied
CallPlayerTakeDamage(amount) ==
    /\ eOp' = "playerTakeDamage" /\ ePre' = heap[ThePlayer]
    /\ eArg' = amount
    /\ eRet' = ~PlayerIsInvulnerable(heap[ThePlayer], clock)
    /\ heap' = [heap EXCEPT ![ThePlayer] = PlayerTakeDamageAt(@, amount, clock)]
    /\ hitTimes' = IF eRet' THEN hitTimes \cup {clock} ELSE hitTimes
    /\ UNCHANGED <<clock, playerRest>>

NextPlayer ==
    \/ \E t \in PlayerTimes : ClockAdvance(t)
    \/ \E amount \in PlayerDamageAmounts : CallPlayerTakeDamage(amount)

SpecPlayer == InitPlayer /\ [][NextPlayer]_vars

\* C15: a takeDamage call made less than 0.5 s after the time of the last
\* applied hit returns false and leaves hit points and last-hit time as
\* they were; a call that returns true lowers the hit points by the amount
\* (not below 0) and records the time; so no two hits are applied less
\* than 0.5 s apart
C15_OneHitPerWindow ==
    /\ eOp = "playerTakeDamage" =>
          /\ (ePre.lastHitTime \in hitTimes
               /\ clock - ePre.lastHitTime < 500) =>
                 /\ eRet = FALSE
                 /\ heap[ThePlayer].hp = ePre.hp
                 /\ heap[ThePlayer].lastHitTime = ePre.lastHitTime
          /\ eRet = TRUE =>
                 /\ heap[ThePlayer].hp =
                       (IF ePre.hp - eArg < 0 THEN 0 ELSE ePre.hp - eArg)
                 /\ heap[ThePlayer].lastHitTime = clock
                 /\ clock \in hitTimes
    /\ \A t1, t2 \in hitTimes : t1 < t2 => t2 - t1 >= 500

\* C15, its case: a hit was applied at 600, and a second call at 1099,
\* inside the window of that hit, has returned false
C15_Witness ==
    /\ eOp = "playerTakeDamage"
    /\ ePre.lastHitTime = INVULN_DURATION + 100
    /\ ePre.lastHitTime \in hitTimes
    /\ ePre.hp = PLAYER_HP - CONTACT_DAMAGE
    /\ clock = 2 * INVULN_DURATION + 99
    /\ eRet = FALSE
    /\ heap[ThePlayer].hp = PLAYER_HP - CONTACT_DAMAGE

\* C27: the first takeDamage call on a new player, one to whom no damage
\* has been applied, applies the damage and returns true at whatever time
\* it is made
C27_FreshPlayerTakesDamage ==
    (eOp = "playerTakeDamage" /\ ePre = NewPlayer) =>
        /\ eRet = TRUE
        /\ heap[ThePlayer].hp = PLAYER_HP - eArg

\* C28: the hit points of the player are never negative and never above
\* maxHp; they are 0 exactly when the player is destroyed; an applied hit
\* that would take them to 0 or below leaves exactly 0, and every call on a
\* player at 0 hit points leaves 0
C28_HitPointsClamped ==
    /\ heap[ThePlayer].hp \in 0..PLAYER_HP
    /\ heap[ThePlayer].destroyed <=> heap[ThePlayer].hp = 0
    /\ (eOp = "playerTakeDamage" /\ eRet = TRUE /\ ePre.hp - eArg <= 0) =>
           heap[ThePlayer].hp = 0 /\ heap[ThePlayer].destroyed
    /\ (eOp = "playerTakeDamage" /\ ePre.hp = 0) => heap[ThePlayer].hp = 0

\* C28, its case: a player with 10 hit points left has taken a hit of 90
\* and is destroyed at 0 hit points
C28_Witness ==
    /\ eOp = "playerTakeDamage" /\ eRet = TRUE
    /\ ePre.hp = CONTACT_DAMAGE /\ eArg = PLAYER_HP - CONTACT_DAMAGE
    /\ heap[ThePlayer].hp = 0 /\ heap[ThePlayer].destroyed

(* ------------------------------ SpecParticle: decay of a particle ----- *)
\* life and decay of the particles constructed, in hundredths; the default
\* 1.0 and 0.03 among them
ParticleLives == {PARTICLE_LIFE, 50, 30}
ParticleDecays == {1, PARTICLE_DECAY, 10, 50}

InitParticle ==
    /\ GameInit /\ ColIdle
    /\ offset = <<0, 0>> /\ eOp = "none" /\ ePre = NullObj
    /\ eArg = 0 /\ eRet = FALSE
    /\ hitTimes = {} /\ SpawnIdle /\ QuestIdle /\ LateIdle /\ CombatIdle /\ RunsIdle
    /\ KnockIdle
    /\ \E life \in ParticleLives, decay \in ParticleDecays :
          /\ particle = NewParticle(life, decay)
          /\ particle0 = NewParticle(life, decay)
    /\ updates = 0

\* particle.update(dt), as Game.update calls it on every particle it holds;
\* destroyed particles are filtered out after each pass
CallParticleUpdate ==
    /\ ~particle.destroyed
    /\ particle' = ParticleUpdate(particle)
    /\ updates' = updates + 1
    /\ UNCHANGED <<particle0, hitTimes, offset, eOp, ePre, eArg, eRet,
                   spawnVars, questVars, lateVars, combatVars, runsVars, knockVars,
                   gameVars, colVars>>

NextParticle == CallParticleUpdate

SpecParticle == InitParticle /\ [][NextParticle]_vars

\* C16: every update lowers life by the decay value, so life is the initial
\* life minus decay times the number of updates; the particle is destroyed
\* exactly when its life is 0 or less, which is first the case after the
\* update that takes it there; with life 1.0 and decay 0.03 it is not
\* destroyed after 33 or fewer updates and is destroyed after the 34th
C16_ParticleDecay ==
    /\ particle.life = particle0.life - updates * particle0.decay
    /\ particle.decay = particle0.decay
    /\ particle.destroyed <=> particle.life <= 0
    /\ particle.destroyed => particle.life + particle.decay > 0
    /\ (particle0.life = 100 /\ particle0.decay = 3) =>
          /\ updates <= 33 => ~particle.destroyed
          /\ updates <= 34
          /\ updates = 34 => particle.destroyed

\* C16, its case: the particle of life 1.0 and decay 0.03 has been updated
\* 34 times and is destroyed
C16_Witness ==
    /\ particle0 = NewParticle(PARTICLE_LIFE, PARTICLE_DECAY)
    /\ updates = 34
    /\ particle.destroyed

\* C32 as stated: the remaining life of a particle is within [0, 1] in
\* every state, the state after the update that destroys it included
C32_LifeWithinUnit ==
    particle.life >= 0 /\ particle.life <= PARTICLE_LIFE

\* C32, amended: the remaining life is at most 1 in every state and above 0
\* as long as the particle is not destroyed; the update that destroys it
\* leaves a life of 0 or below, above minus the decay value
C32_LifePositiveWhileLive ==
    /\ particle.life <= PARTICLE_LIFE
    /\ ~particle.destroyed => particle.life > 0
    /\ particle.destroyed =>
          particle.life <= 0 /\ particle.life > -particle.decay

\* C32, its case: the particle of life 1.0 and decay 0.03 is destroyed,
\* its life below 0
C32_Witness ==
    /\ particle0 = NewParticle(PARTICLE_LIFE, PARTICLE_DECAY)
    /\ particle.destroyed /\ particle.life < 0

(* ------------------------------ SpecSpawn: the placement loops -------- *)
\* the values Math.random() gives to an obstacle's corner: its center on
\* the canvas center, 120 and 121 to the right of it, and far from it
ObstacleCandidates ==
    {<<370, 270>>, <<490, 270>>, <<491, 270>>, <<100, 100>>}

\* the values Math.random() gives to a hostile's corner: its center on the
\* player, 200 and 201 to the right of it, and far from it on the place of
\* the obstacle at <<100, 100>>
EnemyCandidates ==
    {<<386, 286>>, <<586, 286>>, <<587, 286>>, <<120, 120>>}

\* a game before initLevel, with or without a player
InitSpawn ==
    /\ \E hasPlayer \in BOOLEAN :
          /\ heap = [r \in Refs |-> IF hasPlayer /\ r = 1 THEN NewPlayer
                                    ELSE NullObj]
          /\ nextId = IF hasPlayer THEN 2 ELSE 1
          /\ entitiesToAdd = IF hasPlayer THEN <<1>> ELSE <<>>
          /\ player = IF hasPlayer THEN 1 ELSE 0
    /\ entities = <<>> /\ entitiesToRemove = {}
    /\ walls = <<>> /\ score = 0 /\ isGameOver = FALSE
    /\ running = FALSE /\ lastTimestamp = 0
    /\ animationFrameId = 0 /\ rafQueue = {}
    /\ clock = 0 /\ mouseJustPressed = FALSE /\ keys = {}
    /\ listening = TRUE /\ pressState = "none"
    /\ pc = "idle" /\ deltaTime = 0 /\ phases = <<>>
    /\ updated = {} /\ collided = {} /\ atBegin = {}
    /\ ColIdle /\ EnemyIdle

spawnRest == <<entities, entitiesToRemove, player, score, isGameOver,
               loopVars, inputVars, tickVars, colVars, offset, eOp, ePre,
               eArg, eRet, hitTimes, particleVars, questVars, lateVars, combatVars,
               runsVars, knockVars>>

\* the stage that follows the obstacle loop: spawnEnemies returns at once
\* without a player
AfterObstacles == IF player = 0 THEN "done" ELSE "enemies"

\* initLevel enters generateLevel: the border walls, the obstacle count
BeginLevel(n) ==
    /\ stage = "none"
    /\ walls' = BorderWalls
    /\ numObstacles' = n
    /\ stage' = "obstacles" /\ placeI' = 0 /\ attempts' = 0
    /\ UNCHANGED <<heap, nextId, entitiesToAdd, cand, lastPlaced, spawnRest>>

\* one iteration of the do-while loop of generateLevel with the candidate
\* <<x, y>>, and the push of the wall when the loop ends with it
DrawObstacle(x, y) ==
    /\ stage = "obstacles"
    /\ cand' = <<x, y>>
    /\ LET a == attempts + 1
           broke == ObstacleSpotValid(x, y)
       IN  IF broke \/ ~LoopContinues(a, OBSTACLE_MAX_ATTEMPTS)
           THEN /\ walls' = Append(walls, Rect(x, y, OBSTACLE_SIZE,
                                               OBSTACLE_SIZE))
                /\ lastPlaced' = [kind |-> "obstacle", x |-> x, y |-> y,
                            attempts |-> a, broke |-> broke]
                /\ attempts' = 0
                /\ IF placeI + 1 < numObstacles
                   THEN placeI' = placeI + 1 /\ stage' = stage
                   ELSE placeI' = 0 /\ stage' = AfterObstacles
           ELSE /\ attempts' = a /\ lastPlaced' = NoPlacement
                /\ UNCHANGED <<walls, placeI, stage>>
    /\ UNCHANGED <<heap, nextId, entitiesToAdd, numObstacles, spawnRest>>

\* one iteration of the do-while loop of spawnEnemies with the candidate
\* <<x, y>>, and the creation of the hostile when the loop ends with it
DrawEnemy(x, y) ==
    /\ stage = "enemies"
    /\ cand' = <<x, y>>
    /\ LET a == attempts + 1
           broke == EnemySpotValid(x, y, walls)
       IN  IF broke \/ ~LoopContinues(a, ENEMY_MAX_ATTEMPTS)
           THEN /\ LET w == AddEntity(World(heap, nextId, entitiesToAdd, {}),
                                      [NewEnemy EXCEPT !.target = player])
                   IN  /\ heap' = w.heap /\ nextId' = w.nextId
                       /\ entitiesToAdd' = w.toAdd
                /\ lastPlaced' = [kind |-> "enemy", x |-> x, y |-> y,
                            attempts |-> a, broke |-> broke]
                /\ attempts' = 0
                /\ IF placeI + 1 < ENEMY_COUNT
                   THEN placeI' = placeI + 1 /\ stage' = stage
                   ELSE placeI' = 0 /\ stage' = "done"
           ELSE /\ attempts' = a /\ lastPlaced' = NoPlacement
                /\ UNCHANGED <<heap, nextId, entitiesToAdd, placeI, stage>>
    /\ UNCHANGED <<walls, numObstacles, spawnRest>>

NextSpawn ==
    \/ \E n \in {MIN_OBSTACLES, MIN_OBSTACLES + 1} : BeginLevel(n)
    \/ \E c \in ObstacleCandidates : DrawObstacle(c[1], c[2])
    \/ \E c \in EnemyCandidates : DrawEnemy(c[1], c[2])

SpecSpawn == InitSpawn /\ [][NextSpawn]_vars

\* initLevel is synchronous code: once entered it keeps running
SpecSpawnFair == SpecSpawn /\ WF_vars(NextSpawn)

\* C17: a hostile placed by a break of its loop, as is every hostile placed
\* with fewer than 50 attempts, has its center farther than 200 from the
\* player's center and overlaps no wall; an obstacle placed by a break, as
\* is every obstacle placed with fewer than 20 attempts, has its center
\* farther than 120 from the center of the canvas
C17_AcceptedSpotsValid ==
    LET p == lastPlaced
    IN  /\ (p.kind = "enemy" /\ p.attempts < 50) => p.broke
        /\ (p.kind = "enemy" /\ p.broke) =>
              /\ (p.x + 14 - 400) * (p.x + 14 - 400)
                   + (p.y + 14 - 300) * (p.y + 14 - 300) > 200 * 200
              /\ \A i \in DOMAIN walls :
                    \/ p.x + 28 <= walls[i].x
                    \/ walls[i].x + walls[i].width <= p.x
                    \/ p.y + 28 <= walls[i].y
                    \/ walls[i].y + walls[i].height <= p.y
        /\ (p.kind = "obstacle" /\ p.attempts < 20) => p.broke
        /\ (p.kind = "obstacle" /\ p.broke) =>
              (p.x + 30 - 400) * (p.x + 30 - 400)
                + (p.y + 30 - 300) * (p.y + 30 - 300) > 120 * 120

\* C17, its case: with an obstacle at <<100, 100>> on the level, a hostile
\* has been placed by a break at its third attempt, 201 from the player
C17_Witness ==
    /\ lastPlaced.kind = "enemy" /\ lastPlaced.broke
    /\ lastPlaced.attempts = 3
    /\ lastPlaced.x = 587 /\ lastPlaced.y = 286
    /\ \E i \in DOMAIN walls : walls[i] = Rect(100, 100, 60, 60)

\* C18: a running obstacle loop has made fewer than 20 attempts and a
\* running hostile loop fewer than 50; a placement is made after at most
\* 20, respectively 50, attempts; a placement without a break is made at
\* the cap with the candidate drawn last, as a wall of the level or as a
\* pending hostile; and level initialisation always reaches its end, with
\* all obstacles and, if there is a player, all 5 hostiles placed
C18_PlacementTerminates ==
    /\ [](/\ stage = "obstacles" => attempts < 20
          /\ stage = "enemies" => attempts < 50
          /\ lastPlaced.kind = "obstacle" =>
                /\ lastPlaced.attempts >= 1 /\ lastPlaced.attempts <= 20
                /\ walls[Len(walls)] = Rect(cand[1], cand[2], 60, 60)
                /\ ~lastPlaced.broke => lastPlaced.attempts = 20
          /\ lastPlaced.kind = "enemy" =>
                /\ lastPlaced.attempts >= 1 /\ lastPlaced.attempts <= 50
                /\ <<lastPlaced.x, lastPlaced.y>> = cand
                /\ heap[entitiesToAdd[Len(entitiesToAdd)]].kind = "Enemy"
                /\ ~lastPlaced.broke => lastPlaced.attempts = 50
          /\ stage = "done" =>
                /\ Len(walls) = 4 + numObstacles
                /\ player # 0 => Len(entitiesToAdd) = 1 + 5)
    /\ <>(stage = "done")

\* C18, its case: the last hostile has been placed without a break, after
\* 50 candidates that all failed the test, and the level is complete
C18_Witness ==
    /\ stage = "done"
    /\ lastPlaced.kind = "enemy" /\ ~lastPlaced.broke
    /\ lastPlaced.attempts = ENEMY_MAX_ATTEMPTS
    /\ ~EnemySpotValid(lastPlaced.x, lastPlaced.y, walls)

(* ------------------------------ SpecLoop: the frame clock ------------- *)
\* frame timestamps and performance.now() readings of SpecLoop
LoopTimestamps == {0, ShortGap, ShortGap + MAX_DELTA, MaxLoopTime}

\* the loop of a game that holds a player and no level: start, stop, the
\* mouse and the frames
NextLoop ==
    \/ HostAddPlayer
    \/ \E now \in LoopTimestamps : Start(now)
    \/ Stop
    \/ Destroy
    \/ MouseDown
    \/ \E f \in rafQueue, ts \in LoopTimestamps : GameLoop(f, ts)
    \/ \E gone \in SUBSET LiveProjectiles : UpdateEntities(<<0, 0>>, gone)
    \/ RemoveDestroyed
    \/ CheckCollisions({}, {}, {}, FALSE)
    \/ RenderEndFrame

SpecLoop == Init /\ [][NextLoop]_vars

\* C5: the dt of a tick is min(timestamp - lastTimestamp, 100 ms), it lies in
\* [0, 100 ms], and lastTimestamp becomes the frame's timestamp
C5_DeltaTimeClamped ==
    [][(pc = "idle" /\ pc' # "idle") =>
          /\ deltaTime' = (IF clock' - lastTimestamp < MAX_DELTA
                           THEN clock' - lastTimestamp ELSE MAX_DELTA)
          /\ deltaTime' \in 0..MAX_DELTA
          /\ lastTimestamp' = clock']_vars

\* C5, its case: a tick runs on a frame that came more than 100 ms after
\* the previous one, with dt clamped
C5_Witness ==
    /\ pc = "entities" /\ lastTimestamp = MaxLoopTime
    /\ deltaTime = MAX_DELTA

\* C19 as stated: during a tick the flag is set exactly when a left press
\* happened since the end of the previous tick; the steps of a tick leave the
\* flag as it is, and the end of the tick resets it
C19_ReportedToFirstTick ==
    /\ [](pc # "idle" => (mouseJustPressed <=> pressState # "none"))
    /\ [][(pc # "idle" /\ pc' # "idle") =>
            mouseJustPressed' = mouseJustPressed]_vars
    /\ [][(pc = "render" /\ pc' = "idle") => ~mouseJustPressed']_vars

\* C19 amended: the flag is set exactly when a left press happened since the
\* end of the previous tick and destroy() was not called after it; the steps
\* of a tick leave the flag as it is, and the end of the tick resets it; a
\* press followed by destroy() is reported to no tick
C19_ReportedUnlessDestroyed ==
    /\ [](mouseJustPressed <=> pressState = "pending")
    /\ [](pressState = "dropped" => ~listening)
    /\ [][(pc # "idle" /\ pc' # "idle") =>
            mouseJustPressed' = mouseJustPressed]_vars
    /\ [][(pc = "render" /\ pc' = "idle") =>
            ~mouseJustPressed' /\ pressState' = "none"]_vars

\* C19, its case: a press made between two ticks is visible in the
\* collision pass of the second tick
C19_Witness ==
    /\ pc = "collisions" /\ lastTimestamp = ShortGap + MAX_DELTA
    /\ mouseJustPressed /\ pressState = "pending"

\* C20: at most one frame callback is pending and none while the game is
\* stopped; a tick is in progress only while the game is running and begins
\* only in a running game; and a step that leaves a running game running
\* and idle, as start() on a running game does, schedules nothing
C20_StoppedMeansNoTick ==
    /\ [](/\ Cardinality(rafQueue) <= 1
          /\ ~running => rafQueue = {} /\ animationFrameId = 0
          /\ pc # "idle" => running)
    /\ [][(pc = "idle" /\ pc' # "idle") => running /\ running']_vars
    /\ [][(running /\ running' /\ pc = "idle" /\ pc' = "idle") =>
            rafQueue' = rafQueue /\ animationFrameId' = animationFrameId]_vars

\* C20, its case: a game that has run a tick has been stopped while its
\* next frame was requested; nothing is pending
C20_Witness ==
    /\ ~running /\ listening /\ pc = "idle"
    /\ phases # <<>> /\ lastTimestamp > 0
    /\ rafQueue = {} /\ animationFrameId = 0

(* ------------------------------ SpecQuest: quest completion ----------- *)
QuestTargets == {1, 3, 5}

InitQuest ==
    /\ GameInit /\ ColIdle
    /\ offset = <<0, 0>> /\ eOp = "none" /\ ePre = NullObj
    /\ eArg = 0 /\ eRet = FALSE
    /\ hitTimes = {} /\ ParticleIdle /\ SpawnIdle /\ CombatIdle /\ RunsIdle
    /\ KnockIdle /\ LateIdle
    /\ \E target \in QuestTargets : quest = NewQuest(target)
    /\ notifications = 0 /\ questTicks = 0

questRest == <<gameVars, colVars, offset, eOp, ePre, eArg, eRet, hitTimes,
               particleVars, spawnVars, combatVars, runsVars, knockVars,
               lateVars>>

\* a qualifying kill in the collision pass of a tick
QuestCountKill ==
    /\ quest.current < MaxQuestCurrent
    /\ quest' = QuestKill(quest)
    /\ UNCHANGED <<notifications, questTicks, questRest>>

\* the quest evaluation of a tick
QuestTick ==
    /\ questTicks < MaxQuestTicks
    /\ quest' = QuestEvaluate(quest)
    /\ notifications' = notifications + (IF QuestNotifies(quest) THEN 1 ELSE 0)
    /\ questTicks' = questTicks + 1
    /\ UNCHANGED questRest

NextQuest == QuestCountKill \/ QuestTick

SpecQuest == InitQuest /\ [][NextQuest]_vars

\* C21: the evaluation that finds current at or above the target for the
\* first time sets completed and emits the one completion notification; no
\* evaluation of a completed quest emits another, so at most one is ever
\* emitted, and one has been emitted exactly when the quest is completed
C21_NotifiedOncePerCompletion ==
    /\ [](notifications <= 1)
    /\ [](quest.completed <=> notifications = 1)
    /\ [](quest.completed => quest.current >= quest.target)
    /\ [][(questTicks' # questTicks /\ ~quest.completed
           /\ quest.current >= quest.target) =>
            quest'.completed /\ notifications' = notifications + 1]_vars
    /\ [][quest.completed =>
            quest'.completed /\ notifications' = notifications]_vars

\* C21, its case: a quest of target 5 was completed and notified once, and
\* two more kills and later evaluations have emitted nothing further
C21_Witness ==
    /\ quest.target = 5 /\ quest.current = 7 /\ quest.completed
    /\ questTicks = MaxQuestTicks /\ notifications = 1

(* ------------------------------ SpecCombat: projectiles and hostiles --- *)
TheHostiles == {1, 2}

\* a level with two hostiles among the entities, no player, no projectile
InitCombat ==
    /\ heap = [r \in Refs |-> IF r \in TheHostiles THEN NewEnemy ELSE NullObj]
    /\ nextId = 3
    /\ entities = <<1, 2>> /\ entitiesToAdd = <<>> /\ entitiesToRemove = {}
    /\ walls = GenerateLevel(MIN_OBSTACLES)
    /\ player = 0 /\ score = 0 /\ isGameOver = FALSE
    /\ running = FALSE /\ lastTimestamp = 0
    /\ animationFrameId = 0 /\ rafQueue = {}
    /\ clock = 0 /\ mouseJustPressed = FALSE /\ keys = {}
    /\ listening = TRUE /\ pressState = "none"
    /\ pc = "idle" /\ deltaTime = 0 /\ phases = <<>>
    /\ updated = {} /\ collided = {} /\ atBegin = {}
    /\ ColIdle /\ EnemyIdle

combatRest == <<entitiesToAdd, entitiesToRemove, walls, player, isGameOver,
                loopVars, inputVars, tickVars, colVars, offset, eOp, ePre,
                eArg, eRet, hitTimes, particleVars, spawnVars, questVars, lateVars,
                runsVars, knockVars>>

\* a projectile joins the entities: addEntity, then the flush of a tick
CombatShoot ==
    /\ nextId <= MaxIds /\ nextId <= Cardinality(TheHostiles) + MaxShots
    /\ Len(Live(heap, entities, "Projectile")) < MaxLiveProjectiles
    /\ heap' = [heap EXCEPT ![nextId] = NewProjectile]
    /\ entities' = Append(entities, nextId)
    /\ nextId' = nextId + 1
    /\ UNCHANGED <<score, combatVars, combatRest>>

\* a tick without new entities: update removes the destroyed entities,
\* then checkCollisions runs its projectile passes; hitWall: the
\* projectiles that overlap a wall, hits: the overlapping pairs
CombatTick(hitWall, hits) ==
    LET ents == Compacted(heap, entities, {})
        projs == Live(heap, ents, "Projectile")
        enemies == Live(heap, ents, "Enemy")
        h1 == ProjectileVsWall(heap, projs, hitWall)
        st == ProjectileVsEnemy(
                 [heap |-> h1, score |-> score, damaged |-> {}],
                 projs, enemies, 1, hits)
    IN  /\ entities' = ents
        /\ heap' = st.heap
        /\ score' = st.score
        /\ damaged' = st.damaged
        /\ liveAtPass' = Range(projs)
        /\ wallHit' = Range(projs) \cap hitWall
        /\ passHits' = hits \cap (Range(projs) \X Range(enemies))
        /\ UNCHANGED <<nextId, combatRest>>

NextCombat ==
    \/ CombatShoot
    \/ \E hitWall \in SUBSET LiveProjectiles,
          hits \in SUBSET (LiveProjectiles \X TheHostiles) :
            CombatTick(hitWall, hits)

SpecCombat == InitCombat /\ [][NextCombat]_vars

\* the hostiles whose hit points have reached 0
Killed == {e \in TheHostiles : heap[e].hp <= 0}

\* C22: the score is 10 for every hostile whose hit points have reached 0,
\* counted once per hostile, also when several projectiles overlap the same
\* hostile in one collision pass; it changes only in a pass that kills.
C22_ScoreCountsKills ==
    /\ score = KILL_SCORE * Cardinality(Killed)
    /\ \A e \in TheHostiles : heap[e].hp \in 0..ENEMY_HP

\* two projectiles overlapped the same hostile in the pass that killed it
C22_Witness ==
    \E e \in Killed : \E p1, p2 \in liveAtPass \ wallHit :
        /\ p1 # p2 /\ {<<p1, e>>, <<p2, e>>} \subseteq passHits
        /\ <<p1, e>> \in damaged
        /\ score = KILL_SCORE

\* C23: a projectile damages at most one hostile in a pass, only a
\* projectile that was live when the pass began damages one, and a
\* projectile a wall destroyed in the pass damages none.
C23_AtMostOneHostile ==
    /\ \A p \in liveAtPass :
           Cardinality({e \in TheHostiles : <<p, e>> \in damaged}) <= 1
    /\ \A d \in damaged : d[1] \in liveAtPass \ wallHit

(* ------------------------------ SpecRuns: two runs, one simulation ---- *)
\* Two runs of the game are given the same ticks (the same delta times and
\* the same contacts) at different wall-clock times; player r is the
\* player of run r.
TheRuns == {1, 2}

\* the wall-clock time between two frames: a short frame, a frame of
\* exactly the clamp, and a frame that took 0.6 s
WallGaps == {ShortGap, MAX_DELTA, INVULN_DURATION + MAX_DELTA}

\* both pages have been open for 0.5 s when the first tick is made
InitRuns ==
    /\ heap = [r \in Refs |-> IF r \in TheRuns THEN NewPlayer ELSE NullObj]
    /\ nextId = 3
    /\ entities = <<>> /\ entitiesToAdd = <<>> /\ entitiesToRemove = {}
    /\ walls = <<>> /\ player = 0 /\ score = 0 /\ isGameOver = FALSE
    /\ running = FALSE /\ lastTimestamp = 0
    /\ animationFrameId = 0 /\ rafQueue = {}
    /\ clock = 0 /\ mouseJustPressed = FALSE /\ keys = {}
    /\ listening = TRUE /\ pressState = "none"
    /\ pc = "idle" /\ deltaTime = 0 /\ phases = <<>>
    /\ updated = {} /\ collided = {} /\ atBegin = {}
    /\ ColIdle
    /\ offset = <<0, 0>> /\ eOp = "none" /\ ePre = NullObj
    /\ eArg = 0 /\ eRet = FALSE
    /\ hitTimes = {} /\ ParticleIdle /\ SpawnIdle /\ QuestIdle /\ LateIdle /\ CombatIdle
    /\ KnockIdle
    /\ runClock = <<INVULN_DURATION, INVULN_DURATION>>
    /\ simTime = 0 /\ runApplied = <<FALSE, FALSE>> /\ simTicks = 0

runsRest == <<nextId, entities, entitiesToAdd, entitiesToRemove, walls,
              player, score, isGameOver, loopVars, inputVars, pc, phases,
              updated, collided, atBegin, colVars, offset, eOp, ePre, eArg,
              eRet, hitTimes, particleVars, spawnVars, questVars, lateVars,
              combatVars, knockVars>>

\* one tick of both runs: gaps[r] is the wall-clock time since the previous
\* frame of run r, the delta time is the same in both; with touch, a
\* hostile overlaps the player and the collision pass calls takeDamage(10)
RunsTick(gaps, touch) ==
    /\ simTicks < MaxSimTicks
    /\ \A r \in TheRuns : DeltaTime(gaps[r], 0) = DeltaTime(gaps[1], 0)
    /\ simTicks' = simTicks + 1
    /\ deltaTime' = DeltaTime(gaps[1], 0)
    /\ simTime' = simTime + deltaTime'
    /\ runClock' = [r \in TheRuns |-> runClock[r] + gaps[r]]
    /\ runApplied' = [r \in TheRuns |->
            touch /\ ~PlayerIsInvulnerable(heap[r], runClock'[r])]
    /\ heap' = [r \in Refs |->
            IF r \in TheRuns /\ touch
            THEN PlayerTakeDamageAt(heap[r], CONTACT_DAMAGE, runClock'[r])
            ELSE heap[r]]
    /\ UNCHANGED runsRest

NextRuns ==
    \E gaps \in [TheRuns -> WallGaps], touch \in BOOLEAN :
        RunsTick(gaps, touch)

SpecRuns == InitRuns /\ [][NextRuns]_vars

\* C26: two runs with the same ticks and the same contacts apply damage on
\* the same takeDamage calls, whatever their wall-clock times: after every
\* tick the last call was applied in both runs or in neither, and the two
\* players have the same hit points.
C26_SameDamageInBothRuns ==
    /\ runApplied[1] = runApplied[2]
    /\ heap[1].hp = heap[2].hp

(* ------------------------------ positions and knockback --------------- *)
\* Positions are in pixels, velocities in pixels per second, times in ms.
\* The vectors of the models below have integer lengths, so that the
\* square root and the divisions of normalize() are exact on them.
RECURSIVE ISqrtIn(_, _, _)
ISqrtIn(n, lo, hi) ==
    IF lo >= hi THEN lo
    ELSE LET mid == (lo + hi + 1) \div 2
         IN  IF mid * mid <= n THEN ISqrtIn(n, mid, hi)
             ELSE ISqrtIn(n, lo, mid - 1)

\* Vector2.magnitude: Math.sqrt(x * x + y * y)
Magnitude(v) == ISqrtIn(v[1] * v[1] + v[2] * v[2], 0, Abs(v[1]) + Abs(v[2]))

\* Vector2.add, Vector2.subtract
VecAdd(a, b) == <<a[1] + b[1], a[2] + b[2]>>
VecSub(a, b) == <<a[1] - b[1], a[2] - b[2]>>

\* v.normalize().multiply(scalar): the zero vector for the zero vector
NormalizeMultiply(v, scalar) ==
    LET mag == Magnitude(v)
    IN  IF mag = 0 THEN <<0, 0>>
        ELSE <<(v[1] * scalar) \div mag, (v[2] * scalar) \div mag>>

\* velocity.multiply(dt), dt in milliseconds
ScaleByDt(v, dt) == <<(v[1] * dt) \div 1000, (v[2] * dt) \div 1000>>

\* Entity.getCenter of a square entity
GetCenter(p, size) == <<p[1] + size \div 2, p[2] + size \div 2>>

\* Collision.checkAABB on exact coordinates
CheckAABBExact(a, b) ==
    /\ a.x < b.x + b.width
    /\ a.x + a.width > b.x
    /\ a.y < b.y + b.height
    /\ a.y + a.height > b.y

\* Collision.getDirection(from, to), on the centers
GetDirection(fromCenter, toCenter) == VecSub(toCenter, fromCenter)

\* a knockback by direction times force, without normalize()
EnemyKnockbackUnnormalized(p, direction, force) ==
    VecAdd(p, <<direction[1] * force, direction[2] * force>>)

\* Enemy.knockback(direction, force): the position afterwards
EnemyKnockback(p, direction, force) ==
    VecAdd(p, NormalizeMultiply(direction, force))

\* Enemy.updateChase: position and velocity afterwards
UpdateChase(p, v, targetCenter, speed, dt) ==
    LET direction == VecSub(targetCenter, GetCenter(p, ENEMY_SIZE))
        v1 == IF Magnitude(direction) > 0
              THEN NormalizeMultiply(direction, speed) ELSE v
    IN  [pos |-> VecAdd(p, ScaleByDt(v1, dt)), vel |-> v1]

\* Enemy.updateIdle with idleDirection a unit vector
UpdateIdle(p, idleDirection, speed, dt) ==
    LET v1 == <<idleDirection[1] * speed, idleDirection[2] * speed>>
    IN  [pos |-> VecAdd(p, ScaleByDt(v1, dt)), vel |-> v1]

\* Player.update: movement times speed, then clampToScreen
PlayerMove(p, movement, speed, dt) ==
    LET v1 == <<movement[1] * speed, movement[2] * speed>>
        p1 == VecAdd(p, ScaleByDt(v1, dt))
    IN  [pos |-> <<Max(0, Min(p1[1], CanvasWidth - PLAYER_SIZE)),
                   Max(0, Min(p1[2], CanvasHeight - PLAYER_SIZE))>>,
         vel |-> v1]

EnemyRect(p) == Rect(p[1], p[2], ENEMY_SIZE, ENEMY_SIZE)
PlayerRect(p) == Rect(p[1], p[2], PLAYER_SIZE, PLAYER_SIZE)

\* the contact of hostile e with the player, the hostile pushed only when
\* the player took the damage
ContactStepKnockOnDamage(st, pl, e, now) ==
    IF ~st.heap[e].destroyed
       /\ CheckAABBExact(EnemyRect(st.pos[e]), PlayerRect(st.pos[pl]))
    THEN [heap |-> [st.heap EXCEPT
                      ![pl] = PlayerTakeDamageAt(@, CONTACT_DAMAGE, now)],
          pos |-> IF PlayerIsInvulnerable(st.heap[pl], now) THEN st.pos
                  ELSE [st.pos EXCEPT ![e] = EnemyKnockback(@,
                          GetDirection(GetCenter(st.pos[pl], PLAYER_SIZE),
                                       GetCenter(st.pos[e], ENEMY_SIZE)),
                          KNOCKBACK_FORCE)]]
    ELSE st

\* Enemy vs Player, the body of the loop for hostile e at
\* performance.now() = now
ContactStep(st, pl, e, now) ==
    IF ~st.heap[e].destroyed
       /\ CheckAABBExact(EnemyRect(st.pos[e]), PlayerRect(st.pos[pl]))
    THEN [heap |-> [st.heap EXCEPT
                      ![pl] = PlayerTakeDamageAt(@, CONTACT_DAMAGE, now)],
          pos |-> [st.pos EXCEPT ![e] = EnemyKnockback(@,
                      GetDirection(GetCenter(st.pos[pl], PLAYER_SIZE),
                                   GetCenter(st.pos[e], ENEMY_SIZE)),
                      KNOCKBACK_FORCE)]]
    ELSE st

\* Enemy vs Player, the loop over the hostiles that were live at the
\* start of the pass
RECURSIVE ContactLoop(_, _, _, _, _)
ContactLoop(st, pl, enemies, j, now) ==
    IF j > Len(enemies) THEN st
    ELSE ContactLoop(ContactStep(st, pl, enemies[j], now), pl, enemies,
                     j + 1, now)

\* Enemy.update with its movement: the hostile, its position and velocity
EnemyUpdateMove(e, p, v, h, targetPos, idleDirection, dt) ==
    LET live == e.target # 0 /\ ~h[e.target].destroyed
        targetCenter == GetCenter(targetPos, PLAYER_SIZE)
        off == VecSub(targetCenter, GetCenter(p, ENEMY_SIZE))
        e1 == EnemyUpdate(e, live, off)
        m == IF live /\ e1.state = "CHASE"
             THEN UpdateChase(p, v, targetCenter, e1.speed, dt)
             ELSE UpdateIdle(p, idleDirection, e1.speed, dt)
    IN  [obj |-> e1, pos |-> m.pos, vel |-> m.vel]

(* ------------------------------ SpecKnock: contact with the player ---- *)
\* the player and two hostiles on one horizontal line
KnockHostiles == <<2, 3>>

\* wall-clock time between two frames; both give the delta time 0.1 s
KnockGaps == {MAX_DELTA, 2 * MAX_DELTA}

\* InputManager.getMovementVector: left, none, right
Movements == {<<-1, 0>>, <<0, 0>>, <<1, 0>>}

\* the idle directions pickRandomIdleDirection may have drawn
IdleDirections == {<<-1, 0>>, <<1, 0>>}

\* the player at the center of the canvas, hostile 2 with its center 39
\* pixels to the right of the player's, hostile 3 on the left, overlapping
\* the player or not; the page has been open for 0.5 s
InitKnock ==
    /\ heap = [r \in Refs |->
                 IF r = ThePlayer THEN NewPlayer
                 ELSE IF r \in Range(KnockHostiles)
                      THEN [NewEnemy EXCEPT !.target = ThePlayer]
                      ELSE NullObj]
    /\ nextId = 4
    /\ entities = <<1, 2, 3>> /\ entitiesToAdd = <<>>
    /\ entitiesToRemove = {}
    /\ walls = <<>> /\ player = ThePlayer /\ score = 0 /\ isGameOver = FALSE
    /\ running = TRUE /\ lastTimestamp = INVULN_DURATION
    /\ animationFrameId = 0 /\ rafQueue = {}
    /\ clock = INVULN_DURATION /\ mouseJustPressed = FALSE /\ keys = {}
    /\ listening = TRUE /\ pressState = "none"
    /\ pc = "idle" /\ deltaTime = 0 /\ phases = <<>>
    /\ updated = {} /\ collided = {} /\ atBegin = {}
    /\ ColIdle
    /\ offset = <<0, 0>> /\ eOp = "none" /\ ePre = NullObj
    /\ eArg = 0 /\ eRet = FALSE
    /\ hitTimes = {} /\ ParticleIdle /\ SpawnIdle /\ QuestIdle /\ LateIdle /\ CombatIdle
    /\ RunsIdle
    /\ \E x3 \in {350, 322} :
          pos = <<<<(CanvasWidth - PLAYER_SIZE) \div 2,
                    (CanvasHeight - PLAYER_SIZE) \div 2>>,
                  <<CanvasWidth \div 2 + 39 - ENEMY_SIZE \div 2,
                    (CanvasHeight - ENEMY_SIZE) \div 2>>,
                  <<x3, (CanvasHeight - ENEMY_SIZE) \div 2>> >>
    /\ vel = <<<<0, 0>>, <<0, 0>>, <<0, 0>> >>
    /\ prePos = pos /\ knockTicks = 0

knockRest == <<nextId, entities, entitiesToAdd, entitiesToRemove, walls,
               player, score, isGameOver, running, animationFrameId,
               rafQueue, inputVars, pc, phases, updated, collided, atBegin,
               colVars, offset, eArg, eRet, particleVars, spawnVars,
               questVars, lateVars, combatVars, runsVars>>

\* one tick: the frame comes gap ms after the previous one; update moves
\* the player by its input and then each hostile; checkCollisions then
\* runs Enemy vs Player
KnockTick(gap, movement, idleDirection) ==
    LET now == clock + gap
        dt == DeltaTime(now, lastTimestamp)
        pm == PlayerMove(pos[ThePlayer], movement, heap[ThePlayer].speed, dt)
        upd == [e \in Range(KnockHostiles) |->
                  EnemyUpdateMove(heap[e], pos[e], vel[e], heap, pm.pos,
                                  idleDirection, dt)]
        heapU == [r \in Refs |-> IF r \in Range(KnockHostiles)
                                 THEN upd[r].obj ELSE heap[r]]
        posU == [r \in DOMAIN pos |-> IF r = ThePlayer THEN pm.pos
                                      ELSE upd[r].pos]
        st == ContactLoop([heap |-> heapU, pos |-> posU], ThePlayer,
                          Live(heapU, entities, "Enemy"), 1, now)
    IN  /\ knockTicks < MaxKnockTicks
        /\ clock' = now /\ lastTimestamp' = now /\ deltaTime' = dt
        /\ vel' = [r \in DOMAIN vel |-> IF r = ThePlayer THEN pm.vel
                                        ELSE upd[r].vel]
        /\ prePos' = posU /\ ePre' = heapU[ThePlayer]
        /\ heap' = st.heap /\ pos' = st.pos
        /\ hitTimes' = IF st.heap[ThePlayer].hp < heapU[ThePlayer].hp
                       THEN hitTimes \cup {now} ELSE hitTimes
        /\ eOp' = "pass"
        /\ knockTicks' = knockTicks + 1
        /\ UNCHANGED knockRest

NextKnock ==
    \E gap \in KnockGaps, movement \in Movements,
       idleDirection \in IdleDirections :
        KnockTick(gap, movement, idleDirection)

SpecKnock == InitKnock /\ [][NextKnock]_vars

\* hostile e overlapped the player when the last pass began
Touched(e) ==
    CheckAABBExact(EnemyRect(prePos[e]), PlayerRect(prePos[ThePlayer]))

\* the vector from the player's center to the center of hostile e then
AwayFromPlayer(e) ==
    GetDirection(GetCenter(prePos[ThePlayer], PLAYER_SIZE),
                 GetCenter(prePos[e], ENEMY_SIZE))

\* hostile e was moved in the last pass by 30 along AwayFromPlayer(e)
PushedAway(e) ==
    LET d == VecSub(pos[e], prePos[e])
        a == AwayFromPlayer(e)
    IN  /\ d[1] * d[1] + d[2] * d[2] = KNOCKBACK_FORCE * KNOCKBACK_FORCE
        /\ d[1] * a[2] = d[2] * a[1]
        /\ d[1] * a[1] + d[2] * a[2] > 0

\* the player loses 10 hit points or none in a pass, and the hits it
\* takes are at least 0.5 s apart
OneHitPerWindow ==
    /\ eOp = "pass" =>
          ePre.hp - heap[ThePlayer].hp \in {0, CONTACT_DAMAGE}
    /\ \A t1, t2 \in hitTimes : t1 < t2 => t2 - t1 >= INVULN_DURATION

\* C29 as stated: in each collision pass every live hostile that overlaps
\* the live player is moved by 30 along the direction from the player's
\* center to its own, whether or not the player took damage, and the
\* player loses 10 hit points at most once per invulnerability window
C29_EveryTouchingHostilePushed ==
    /\ eOp = "pass" =>
          \A e \in Range(KnockHostiles) :
              IF Touched(e) THEN PushedAway(e) ELSE pos[e] = prePos[e]
    /\ OneHitPerWindow

\* C29, amended: a touching hostile whose center is not the player's is
\* moved by 30 along that direction; one whose center is the player's
\* center is not moved, and neither is a hostile that does not touch
C29_TouchingHostilePushedUnlessCentered ==
    /\ eOp = "pass" =>
          \A e \in Range(KnockHostiles) :
              IF Touched(e) /\ AwayFromPlayer(e) # <<0, 0>>
              THEN PushedAway(e) ELSE pos[e] = prePos[e]
    /\ OneHitPerWindow

\* C29, its case: both hostiles touched the player in one pass, the player
\* lost 10 hit points, and both hostiles were pushed, one to each side
C29_Witness ==
    /\ eOp = "pass"
    /\ \A e \in Range(KnockHostiles) : Touched(e) /\ PushedAway(e)
    /\ ePre.hp - heap[ThePlayer].hp = CONTACT_DAMAGE
    /\ pos[2][1] > prePos[2][1] /\ pos[3][1] < prePos[3][1]

(* ------------------------------ SpecKnockback: Enemy.knockback -------- *)
\* One hostile without a target is knocked back, damaged and updated by
\* its host. pos[1] and vel[1] are its position and velocity; prePos holds
\* the position and the velocity before the last call.
KnockDirections == {<<0, 0>>, <<3, 4>>, <<-8, 6>>, <<0, -5>>}
KnockForces == {KNOCKBACK_FORCE, 10}

InitKnockback ==
    /\ heap = [r \in Refs |-> IF r = TheEnemy THEN NewEnemy ELSE NullObj]
    /\ nextId = 2
    /\ entities = <<>> /\ entitiesToAdd = <<>> /\ entitiesToRemove = {}
    /\ walls = <<>> /\ player = 0 /\ score = 0 /\ isGameOver = FALSE
    /\ running = FALSE /\ lastTimestamp = 0
    /\ animationFrameId = 0 /\ rafQueue = {}
    /\ clock = 0 /\ mouseJustPressed = FALSE /\ keys = {}
    /\ listening = TRUE /\ pressState = "none"
    /\ pc = "idle" /\ deltaTime = 0 /\ phases = <<>>
    /\ updated = {} /\ collided = {} /\ atBegin = {}
    /\ ColIdle
    /\ offset = <<0, 0>> /\ eOp = "none" /\ ePre = NullObj
    /\ eArg = 0 /\ eRet = FALSE
    /\ hitTimes = {} /\ ParticleIdle /\ SpawnIdle /\ QuestIdle /\ LateIdle /\ CombatIdle
    /\ RunsIdle
    /\ pos = << <<CanvasWidth \div 2, CanvasHeight \div 2>> >>
    /\ vel = << <<0, 0>> >>
    /\ prePos = <<pos[1], vel[1]>>
    /\ knockTicks = 0

knockbackRest == <<nextId, entities, entitiesToAdd, entitiesToRemove, walls,
                   player, score, isGameOver, loopVars, inputVars, pc,
                   phases, updated, collided, atBegin, colVars, eRet,
                   hitTimes, particleVars, spawnVars, questVars, lateVars, combatVars,
                   runsVars>>

\* enemy.knockback(direction, force)
CallKnockback(direction, force) ==
    /\ knockTicks < MaxKnockTicks
    /\ eOp' = "knockback" /\ ePre' = heap[TheEnemy]
    /\ offset' = direction /\ eArg' = force
    /\ prePos' = <<pos[1], vel[1]>>
    /\ pos' = <<EnemyKnockback(pos[1], direction, force)>>
    /\ knockTicks' = knockTicks + 1
    /\ UNCHANGED <<heap, vel, deltaTime, knockbackRest>>

\* enemy.takeDamage(1)
KnockTakeDamage ==
    /\ knockTicks < MaxKnockTicks
    /\ eOp' = "takeDamage" /\ ePre' = heap[TheEnemy]
    /\ offset' = <<0, 0>> /\ eArg' = PROJECTILE_DAMAGE
    /\ prePos' = <<pos[1], vel[1]>>
    /\ heap' = [heap EXCEPT ![TheEnemy] =
                   EnemyTakeDamage(@, PROJECTILE_DAMAGE)]
    /\ knockTicks' = knockTicks + 1
    /\ UNCHANGED <<pos, vel, deltaTime, knockbackRest>>

\* enemy.update(dt) with dt = 0.1 s, the idle direction being idleDirection
KnockUpdate(idleDirection) ==
    LET u == EnemyUpdateMove(heap[TheEnemy], pos[1], vel[1], heap,
                             <<0, 0>>, idleDirection, MAX_DELTA)
    IN  /\ knockTicks < MaxKnockTicks
        /\ eOp' = "update" /\ ePre' = heap[TheEnemy]
        /\ offset' = <<0, 0>> /\ eArg' = 0
        /\ deltaTime' = MAX_DELTA
        /\ prePos' = <<pos[1], vel[1]>>
        /\ heap' = [heap EXCEPT ![TheEnemy] = u.obj]
        /\ pos' = <<u.pos>> /\ vel' = <<u.vel>>
        /\ knockTicks' = knockTicks + 1
        /\ UNCHANGED knockbackRest

NextKnockback ==
    \/ \E direction \in KnockDirections, force \in KnockForces :
          CallKnockback(direction, force)
    \/ KnockTakeDamage
    \/ \E idleDirection \in IdleDirections : KnockUpdate(idleDirection)

SpecKnockback == InitKnockback /\ [][NextKnockback]_vars

\* C30: knockback(direction, force) moves the hostile by force along
\* direction, by nothing when direction is the zero vector, and leaves its
\* velocity, hit points, state, latch and destroyed flag as they were; the
\* displacement of every later update is the velocity of that update times
\* dt, a velocity of length speed, so nothing of the knockback is carried
\* into later ticks
C30_KnockbackMovesOnce ==
    /\ [](eOp = "knockback" =>
            LET d == VecSub(pos[1], prePos[1])
            IN  /\ offset = <<0, 0>> => d = <<0, 0>>
                /\ offset # <<0, 0>> =>
                      /\ d[1] * d[1] + d[2] * d[2] = eArg * eArg
                      /\ d[1] * offset[2] = d[2] * offset[1]
                      /\ d[1] * offset[1] + d[2] * offset[2] > 0
                /\ vel[1] = prePos[2]
                /\ heap[TheEnemy] = ePre)
    /\ [][eOp' = "update" =>
            /\ VecSub(pos'[1], pos[1]) = ScaleByDt(vel'[1], deltaTime')
            /\ vel'[1][1] * vel'[1][1] + vel'[1][2] * vel'[1][2] =
                  heap'[TheEnemy].speed * heap'[TheEnemy].speed]_vars

\* C30, its case: a just-damaged hostile in CHASE that has been moving was
\* knocked back by 30 along (-8, 6)
C30_Witness ==
    /\ eOp = "knockback" /\ offset = <<-8, 6>> /\ eArg = KNOCKBACK_FORCE
    /\ VecSub(pos[1], prePos[1]) = <<-24, 18>>
    /\ ePre.wasRecentlyDamaged /\ ePre.state = "CHASE"
    /\ prePos[2] # <<0, 0>>

(* ------------------------------ SpecSession --------------------------- *)
\* Whole calls of gameLoop on a running game with its particle collection:
\* hostiles touch the player, the player dies, the game is over, 'r'
\* restarts it. No projectile is fired. eOp names the last operation.

\* Particle.burst(..., 15, ...) of the game-over check
GAMEOVER_BURST == 15

\* Particle.scatter(..., 5) of a hit on the player
PLAYER_HIT_SCATTER == 5

\* a hostile touches the player only while the collection has room for the
\* scatter of the hit
MaxParticles == 5

\* the calls of removeEntity in one behaviour
MaxRemoved == 1

\* Particle.burst, Particle.scatter: count particles of the default life and
\* decay
ParticleBatch(count) ==
    [i \in 1..count |-> NewParticle(PARTICLE_LIFE, PARTICLE_DECAY)]

\* for (const particle of this.particles) particle.update(deltaTime)
UpdatedParticles(ps) == [i \in 1..Len(ps) |-> ParticleUpdate(ps[i])]

\* a filter that keeps every particle
LiveParticlesAll(ps) == ps

\* this.particles = this.particles.filter(p => !p.destroyed)
LiveParticles(ps) == SelectSeq(ps, LAMBDA p : ~p.destroyed)

\* the fields of the game a call of gameLoop reads and writes
Session ==
    [heap |-> heap, nextId |-> nextId, entities |-> entities,
     toAdd |-> entitiesToAdd, toRemove |-> entitiesToRemove,
     particles |-> particles, walls |-> walls, player |-> player,
     score |-> score, isGameOver |-> isGameOver,
     updated |-> {}, phases |-> <<>>]

\* the name of the first object a restart constructs: the objects of the
\* session before the one that ends are garbage, and when the names run out
\* theirs are used again
RestartId(n) == IF n + ENEMY_COUNT <= MaxIds THEN n ELSE 1

\* a restart that leaves the particles and the pending-remove set
SessionRestartKeeps(g, obstacleCount) ==
    LET first == RestartId(g.nextId)
        w1 == AddEntity(World(g.heap, first, <<>>, {}), NewPlayer)
        w2 == SpawnEnemies(w1, first)
    IN  [g EXCEPT !.entities = <<>>, !.toAdd = w2.toAdd,
                  !.walls = GenerateLevel(obstacleCount),
                  !.score = 0, !.isGameOver = FALSE,
                  !.player = first, !.nextId = w2.nextId,
                  !.heap = w2.heap, !.phases = Append(@, "restart")]

\* Game.restart
SessionRestart(g, obstacleCount) ==
    LET first == RestartId(g.nextId)
        w1 == AddEntity(World(g.heap, first, <<>>, {}), NewPlayer)
        w2 == SpawnEnemies(w1, first)
    IN  [g EXCEPT !.entities = <<>>, !.toAdd = w2.toAdd, !.toRemove = {},
                  !.particles = <<>>,
                  !.walls = GenerateLevel(obstacleCount),
                  !.score = 0, !.isGameOver = FALSE,
                  !.player = first, !.nextId = w2.nextId,
                  !.heap = w2.heap, !.phases = Append(@, "restart")]

\* Game.update(deltaTime) of a game that is not over: the flush, the update
\* pass, the particles, the game-over check and the compaction
SessionUpdate(g, off) ==
    LET ents == g.entities \o g.toAdd
        w == UpdateAll(World(g.heap, g.nextId, <<>>, {}), ents, 1, MAX_DELTA,
                       FALSE, off, {})
        ps == LiveParticles(UpdatedParticles(g.particles))
        dead == GameOverCheck(w.heap, g.player)
    IN  [g EXCEPT !.heap = w.heap, !.nextId = w.nextId, !.toAdd = w.toAdd,
                  !.updated = w.updated,
                  !.particles = IF dead
                                THEN ps \o ParticleBatch(GAMEOVER_BURST)
                                ELSE ps,
                  !.isGameOver = dead,
                  !.entities = Compacted(w.heap, ents, g.toRemove),
                  !.toRemove = {},
                  !.phases = @ \o <<"flush", "entities", "particles",
                                    "compact">>]

\* an update that a game that is over does not skip
GameUpdateNeverSkipped(g, rDown, obstacleCount, off) ==
    IF g.isGameOver /\ rDown THEN SessionRestart(g, obstacleCount)
    ELSE SessionUpdate(g, off)

\* Game.update(deltaTime); rDown: this.input.isKeyDown('r')
GameUpdate(g, rDown, obstacleCount, off) ==
    IF g.isGameOver
    THEN IF rDown THEN SessionRestart(g, obstacleCount) ELSE g
    ELSE SessionUpdate(g, off)

\* Game.checkCollisions with no projectile in the game: the Enemy vs Player
\* loop and the scatter of an applied hit
SessionCollisions(g, touch, inv) ==
    LET enemies == Live(g.heap, g.entities, "Enemy")
        h == IF g.player # 0 /\ ~g.heap[g.player].destroyed
             THEN EnemyVsPlayer(g.heap, g.player, enemies, 1, touch, inv)
             ELSE g.heap
        applied == g.player # 0 /\ h[g.player].hp < g.heap[g.player].hp
    IN  [g EXCEPT !.heap = h,
                  !.particles = IF applied
                                THEN @ \o ParticleBatch(PLAYER_HIT_SCATTER)
                                ELSE @,
                  !.phases = Append(@, "collisions")]

\* a loop that runs the collision pass also when the game is over
SessionLoopAlwaysCollides(g, rDown, obstacleCount, off, touch, inv) ==
    LET g1 == GameUpdate(g, rDown, obstacleCount, off)
        g2 == SessionCollisions(g1, touch, inv)
    IN  [g2 EXCEPT !.phases = Append(@, "render")]

\* gameLoop: update, the collision pass unless the game is over, render
SessionLoop(g, rDown, obstacleCount, off, touch, inv) ==
    LET g1 == GameUpdate(g, rDown, obstacleCount, off)
        g2 == IF g1.isGameOver THEN g1 ELSE SessionCollisions(g1, touch, inv)
    IN  [g2 EXCEPT !.phases = Append(@, "render")]

\* the index of the followed particle after a call of gameLoop that turned
\* particles into after; track: follow the first particle the call added
TrackedAfter(g, track) ==
    LET ran == "particles" \in Range(g.phases)
        ups == UpdatedParticles(particles)
        kept == IF tracked = 0 \/ tracked > Len(particles) THEN 0
                ELSE IF ~ran THEN tracked
                ELSE IF ups[tracked].destroyed THEN 0
                ELSE Cardinality({i \in 1..tracked : ~ups[i].destroyed})
        old == IF ran THEN Len(LiveParticles(ups)) ELSE Len(particles)
    IN  IF "restart" \in Range(g.phases) THEN 0
        ELSE IF kept = 0 /\ track /\ Len(g.particles) > old THEN old + 1
        ELSE kept

\* the session after addEntity(player), setPlayer, initLevel and start
FreshSession ==
    SpawnEnemies(AddEntity(World([r \in Refs |-> NullObj], 1, <<>>, {}),
                           NewPlayer), 1)

\* a later state of that session: the pending entities are live, the last
\* hostile was killed and removed, and the player has taken all hits but one
LateSession ==
    [r \in Refs |->
        IF r = 1 THEN [NewPlayer EXCEPT !.game = TRUE, !.hp = CONTACT_DAMAGE]
        ELSE IF r < ENEMY_COUNT + 1
        THEN [NewEnemy EXCEPT !.game = TRUE, !.target = 1]
        ELSE NullObj]

InitSession ==
    /\ \E late \in BOOLEAN :
          IF late
          THEN /\ heap = LateSession /\ nextId = FreshSession.nextId
               /\ entities = [i \in 1..ENEMY_COUNT |-> i]
               /\ entitiesToAdd = <<>> /\ score = KILL_SCORE
          ELSE /\ heap = FreshSession.heap /\ nextId = FreshSession.nextId
               /\ entities = <<>>
               /\ entitiesToAdd = FreshSession.toAdd /\ score = 0
    /\ entitiesToRemove = {} /\ walls = GenerateLevel(MIN_OBSTACLES)
    /\ player = 1 /\ isGameOver = FALSE
    /\ running = TRUE /\ lastTimestamp = 0
    /\ animationFrameId = 1 /\ rafQueue = {1}
    /\ clock = 0 /\ mouseJustPressed = FALSE /\ keys = {}
    /\ listening = TRUE /\ pressState = "none"
    /\ pc = "idle" /\ deltaTime = 0 /\ phases = <<>>
    /\ updated = {} /\ collided = {} /\ atBegin = {}
    /\ ColIdle /\ EnemyIdle

sessionRest == <<loopVars, mouseJustPressed, listening, pressState, pc,
                 deltaTime, collided, atBegin, colVars, offset, ePre, eArg,
                 eRet, hitTimes, particleVars, spawnVars, questVars,
                 combatVars, runsVars, knockVars, shooter, flight>>

\* the hostiles that can touch the player in a call of gameLoop
SessionTouches == {{}, Range(entities \o entitiesToAdd) \ {player}}

\* requestAnimationFrame runs gameLoop
SessionTick(obstacleCount, off, touch, inv, track) ==
    /\ running
    /\ touch # {} => Len(particles) + PLAYER_HIT_SCATTER <= MaxParticles
    /\ \E g \in {SessionLoop(Session, "r" \in keys, obstacleCount, off,
                             touch, inv)} :
           /\ heap' = Collect(g.heap, g.entities, g.toAdd, g.toRemove,
                              g.player)
           /\ nextId' = g.nextId
           /\ entities' = g.entities
           /\ entitiesToAdd' = g.toAdd
           /\ entitiesToRemove' = g.toRemove
           /\ particles' = g.particles
           /\ walls' = g.walls
           /\ player' = g.player
           /\ score' = g.score
           /\ isGameOver' = g.isGameOver
           /\ updated' = g.updated
           /\ phases' = g.phases
           /\ tracked' = TrackedAfter(g, track)
           /\ removed' = IF "restart" \in Range(g.phases)
                         THEN removed \ Range(g.toAdd)
                         ELSE removed
    /\ eOp' = "gameLoop"
    /\ UNCHANGED <<keys, sessionRest>>

\* InputManager.handleKeyDown of 'r'
SessionKeyDown ==
    /\ listening
    /\ keys' = keys \cup {"r"}
    /\ eOp' = "input"
    /\ UNCHANGED <<heap, nextId, entities, entitiesToAdd, entitiesToRemove,
                   walls, player, score, isGameOver, phases, updated,
                   sessionVars, sessionRest>>

\* InputManager.handleKeyUp of 'r'
SessionKeyUp ==
    /\ listening
    /\ keys' = keys \ {"r"}
    /\ eOp' = "input"
    /\ UNCHANGED <<heap, nextId, entities, entitiesToAdd, entitiesToRemove,
                   walls, player, score, isGameOver, phases, updated,
                   sessionVars, sessionRest>>

\* the hostiles the host calls removeEntity with: the last entity of the
\* live collection and the last of the pending-add buffer
SessionRemovable ==
    {r \in Refs : /\ heap[r].kind = "Enemy"
                  /\ \/ entities # <<>> /\ r = entities[Len(entities)]
                     \/ entitiesToAdd # <<>>
                        /\ r = entitiesToAdd[Len(entitiesToAdd)]}

\* Game.removeEntity(entity), called by the host between two frames
SessionRemoveEntity(r) ==
    /\ Cardinality(removed) < MaxRemoved
    /\ entitiesToRemove' = entitiesToRemove \cup {r}
    /\ removed' = removed \cup {r}
    /\ eOp' = "removeEntity"
    /\ UNCHANGED <<heap, nextId, entities, entitiesToAdd, walls, player,
                   score, isGameOver, keys, phases, updated, particles,
                   tracked, sessionRest>>

NextSession ==
    \/ \E touch \in SessionTouches, inv \in BOOLEAN :
          SessionTick(MIN_OBSTACLES, <<250, 0>>, touch, inv, FALSE)
    \/ SessionKeyDown
    \/ SessionKeyUp
    \/ \E r \in SessionRemovable : SessionRemoveEntity(r)

SpecSession == InitSession /\ [][NextSession]_vars

(* ------------------------------ SpecDust ------------------------------ *)
\* The end of a session, with one particle followed from its addition on:
\* one hostile is left, the player has DustHits hits left, no key is
\* pressed and the host removes no entity.
DustHits == 3

DustSession ==
    [r \in Refs |->
        IF r = 1
        THEN [NewPlayer EXCEPT !.game = TRUE, !.hp = DustHits * CONTACT_DAMAGE]
        ELSE IF r = 2 THEN [NewEnemy EXCEPT !.game = TRUE, !.target = 1]
        ELSE NullObj]

InitDust ==
    /\ heap = DustSession /\ nextId = FreshSession.nextId
    /\ entities = <<1, 2>> /\ entitiesToAdd = <<>>
    /\ score = (ENEMY_COUNT - 1) * KILL_SCORE
    /\ entitiesToRemove = {} /\ walls = GenerateLevel(MIN_OBSTACLES)
    /\ player = 1 /\ isGameOver = FALSE
    /\ running = TRUE /\ lastTimestamp = 0
    /\ animationFrameId = 1 /\ rafQueue = {1}
    /\ clock = 0 /\ mouseJustPressed = FALSE /\ keys = {}
    /\ listening = TRUE /\ pressState = "none"
    /\ pc = "idle" /\ deltaTime = 0 /\ phases = <<>>
    /\ updated = {} /\ collided = {} /\ atBegin = {}
    /\ ColIdle /\ EnemyIdle

DustTick ==
    \E touch \in SessionTouches, inv \in BOOLEAN, track \in BOOLEAN :
       SessionTick(MIN_OBSTACLES, <<250, 0>>, touch, inv, track)

NextDust == DustTick

SpecDust == InitDust /\ [][NextDust]_vars

\* gameLoop requests the next frame at its end: frames keep coming
SpecDustFair == SpecDust /\ WF_vars(DustTick)

\* C33: after each call of gameLoop no particle of the collection is flagged
\* destroyed, and while frames keep coming every particle that was added to
\* the collection is eventually removed from it.
C33_ParticlesTerminate ==
    /\ [](\A i \in DOMAIN particles : ~particles[i].destroyed)
    /\ (tracked # 0) ~> (tracked = 0)

\* the part of C33 that is about the filter alone
C33_NoDestroyedParticleKept ==
    \A i \in DOMAIN particles : ~particles[i].destroyed

\* C35: a call of gameLoop on a game that is over, with 'r' not down,
\* changes no simulation state: no entity is updated, the pending-add
\* buffer is not flushed, no collision pass runs, the entities and their hit
\* points, the particles, the walls and the score stay as they are; the
\* call only renders.
C35_GameOverTickFrozen ==
    [][(isGameOver /\ "r" \notin keys /\ eOp' = "gameLoop") =>
          /\ UNCHANGED <<heap, nextId, entities, entitiesToAdd,
                         entitiesToRemove, particles, walls, player, score,
                         isGameOver>>
          /\ updated' = {}
          /\ phases' = <<"render">>]_vars

\* a game that is over has had such a call: the burst, a pending removal
\* and the dead player are still there
C35_Witness ==
    /\ isGameOver /\ "r" \notin keys
    /\ eOp = "gameLoop" /\ phases = <<"render">>
    /\ Len(particles) >= GAMEOVER_BURST
    /\ entitiesToRemove # {}
    /\ heap[player].hp = 0

\* the player of the game has 0 hit points
PlayerIsDead == player # 0 /\ heap[player].hp = 0

\* C36: the game is over only while the player has 0 hit points, and a player
\* whose hit points a collision pass brought to 0 makes the update of the
\* next call of gameLoop set isGameOver: between the death and the
\* game-over state no collision pass runs and the score does not change.
C36_GameOverFollowsDeath ==
    /\ [](isGameOver => PlayerIsDead)
    /\ [](PlayerIsDead /\ ~isGameOver =>
             pc \in {"render", "idle", "entities"})
    /\ [][PlayerIsDead /\ ~isGameOver =>
             /\ score' = score
             /\ pc = "entities" /\ pc' # pc => isGameOver']_vars

\* the update that follows the death has just set isGameOver
C36_Witness ==
    /\ isGameOver /\ pc = "compact" /\ phases = <<"flush", "update">>
    /\ heap[player].hp = 0

\* C37: a restart happens only in a call of gameLoop on a game that is over
\* with 'r' down, and after it the score is 0, the game is not over, the live
\* collection, the particle collection and the pending-remove set are empty,
\* and the pending-add buffer holds one new player with full hit points
\* followed by ENEMY_COUNT new hostiles in IDLE that target that player; the
\* objects are new ones and the walls are a newly generated level.
C37_RestartResetsSession ==
    [][(eOp' = "gameLoop" /\ "restart" \in Range(phases')) =>
          /\ isGameOver /\ "r" \in keys
          /\ score' = 0 /\ ~isGameOver'
          /\ entities' = <<>> /\ particles' = <<>> /\ entitiesToRemove' = {}
          /\ Len(entitiesToAdd') = ENEMY_COUNT + 1
          /\ Cardinality(Range(entitiesToAdd')) = ENEMY_COUNT + 1
          /\ player' = entitiesToAdd'[1]
          /\ heap'[player'] = [NewPlayer EXCEPT !.game = TRUE]
          /\ \A i \in 2..(ENEMY_COUNT + 1) :
                heap'[entitiesToAdd'[i]] =
                   [NewEnemy EXCEPT !.game = TRUE, !.target = player']
          /\ Range(entitiesToAdd') \cap
                (Range(entities) \cup Range(entitiesToAdd)
                 \cup entitiesToRemove \cup {player}) = {}
          /\ \A r \in Refs :
                heap'[r].kind # "none" => r \in Range(entitiesToAdd')
          /\ walls' = GenerateLevel(MIN_OBSTACLES)]_vars

\* a restart has just been made
C37_Witness ==
    /\ eOp = "gameLoop" /\ "restart" \in Range(phases)
    /\ ~isGameOver /\ "r" \in keys
    /\ Len(entitiesToAdd) = ENEMY_COUNT + 1
    /\ heap[player].hp = PLAYER_HP /\ particles = <<>>

\* C34: an entity removeEntity was called with is absent from the live
\* collection (and from the pending-add buffer) at the end of the next update
\* that the game-over test does not skip, whether it was live or still
\* pending when the call was made, and it stays absent from then on.
C34_RemovedEntityStaysAbsent ==
    /\ [](\A r \in removed :
             \/ r \in entitiesToRemove
             \/ r \notin Range(entities) /\ r \notin Range(entitiesToAdd))
    /\ [][(eOp' = "gameLoop" /\ "compact" \in Range(phases')) =>
             /\ entitiesToRemove' = {}
             /\ \A r \in entitiesToRemove :
                   r \notin Range(entities') /\ r \notin Range(entitiesToAdd')
          ]_vars

\* an update has removed the entity and the session goes on
C34_Witness ==
    /\ removed # {} /\ entitiesToRemove = {}
    /\ eOp = "gameLoop" /\ "compact" \in Range(phases)
    /\ Len(entities) = ENEMY_COUNT
    /\ removed \cap Range(entities) = {}

(* ------------------------------ SpecShoot ----------------------------- *)
\* One player of a game, its updates with their delta times and the presses
\* of the pointer; the projectiles are handed to the game and not followed.
\* Times are in milliseconds of simulated time.

\* the simulated time the updates add up to
MaxShootTime == 400

\* the delta times of the updates
ShootDeltas == {ShortGap, FrameStep \div 2, Min(FrameStep, MAX_DELTA)}

InitShoot ==
    /\ heap = [r \in Refs |-> IF r = ThePlayer
                              THEN [NewPlayer EXCEPT !.game = TRUE]
                              ELSE NullObj]
    /\ nextId = 2
    /\ entities = <<>> /\ entitiesToAdd = <<>> /\ entitiesToRemove = {}
    /\ walls = <<>> /\ player = 0 /\ score = 0 /\ isGameOver = FALSE
    /\ running = FALSE /\ lastTimestamp = 0
    /\ animationFrameId = 0 /\ rafQueue = {}
    /\ clock = 0 /\ mouseJustPressed = FALSE /\ keys = {}
    /\ listening = TRUE /\ pressState = "none"
    /\ pc = "idle" /\ deltaTime = 0 /\ phases = <<>>
    /\ updated = {} /\ collided = {} /\ atBegin = {}
    /\ ColIdle /\ EnemyIdle

shootRest == <<nextId, entities, entitiesToAdd, entitiesToRemove, walls,
               player, score, isGameOver, loopVars, keys, listening,
               pressState, pc, phases, updated, collided, atBegin, colVars,
               offset, ePre, eArg, eRet, hitTimes, particleVars, spawnVars,
               questVars, combatVars, runsVars, knockVars, sessionVars,
               flight>>

\* InputManager.handleMouseDown, left button
ShootMouseDown ==
    /\ mouseJustPressed' = TRUE
    /\ eOp' = "mousedown"
    /\ UNCHANGED <<heap, deltaTime, shooter, shootRest>>

\* a tick: player.update(dt) in the update pass and input.endFrame() at the
\* end of gameLoop
ShootUpdate(dt) ==
    /\ shooter.clock + dt <= MaxShootTime
    /\ \E w \in {UpdateOne(World(heap, nextId, <<>>, {}), ThePlayer, dt,
                           mouseJustPressed, <<0, 0>>, {})} :
          LET n == Len(w.toAdd)
              now == shooter.clock + dt
          IN  /\ heap' = [r \in Refs |-> IF r = ThePlayer THEN w.heap[r]
                                         ELSE NullObj]
              /\ shooter' = [clock |-> now, fired |-> n,
                             lastShot |-> IF n > 0 THEN now
                                          ELSE shooter.lastShot,
                             gap |-> IF n > 0 /\ shooter.lastShot >= 0
                                     THEN now - shooter.lastShot
                                     ELSE shooter.gap]
    /\ deltaTime' = dt
    /\ mouseJustPressed' = EndFrame
    /\ eOp' = "update"
    /\ UNCHANGED shootRest

NextShoot ==
    \/ ShootMouseDown
    \/ \E dt \in ShootDeltas : ShootUpdate(dt)

SpecShoot == InitShoot /\ [][NextShoot]_vars

\* C38: an update of the player adds at most one projectile, and only when
\* the pointer was just pressed and the cooldown, decreased by the delta
\* time and not below 0, has reached 0; a shot sets the cooldown to 0.15 s,
\* an update without a shot leaves the decreased cooldown; two consecutive
\* shots are at least 0.15 s of simulated time apart.
C38_ShotsRespectCooldown ==
    /\ [](/\ shooter.fired <= 1
          /\ heap[ThePlayer].shootCooldown \in 0..SHOOT_COOLDOWN
          /\ shooter.gap >= 0 => shooter.gap >= SHOOT_COOLDOWN)
    /\ [][eOp' = "update" =>
             /\ shooter'.fired = 1 =>
                   /\ mouseJustPressed
                   /\ heap[ThePlayer].shootCooldown <= deltaTime'
                   /\ heap'[ThePlayer].shootCooldown = SHOOT_COOLDOWN
             /\ shooter'.fired = 0 =>
                   heap'[ThePlayer].shootCooldown =
                      Max(0, heap[ThePlayer].shootCooldown - deltaTime')
          ]_vars

\* a second shot exactly 0.15 s after the first
C38_Witness ==
    /\ eOp = "update" /\ shooter.fired = 1
    /\ shooter.gap = SHOOT_COOLDOWN
    /\ heap[ThePlayer].shootCooldown = SHOOT_COOLDOWN

(* ------------------------------ SpecFlight ---------------------------- *)
\* One projectile from addEntity on, in a game that is not over: the flush,
\* Projectile.update, the compaction and the collision pass of every tick.
\* Positions are in pixels, velocities in pixels per second.

\* Projectile: width and height, speed
PROJECTILE_SIZE == 8
PROJECTILE_SPEED == 600

\* Vector2.fromAngle(angle, this.speed) for seven angles
FlightVelocities ==
    {<<PROJECTILE_SPEED, 0>>, <<-PROJECTILE_SPEED, 0>>,
     <<0, PROJECTILE_SPEED>>, <<0, -PROJECTILE_SPEED>>,
     <<(3 * PROJECTILE_SPEED) \div 5, (4 * PROJECTILE_SPEED) \div 5>>,
     <<-((4 * PROJECTILE_SPEED) \div 5), -((3 * PROJECTILE_SPEED) \div 5)>>,
     <<(4 * PROJECTILE_SPEED) \div 5, -((3 * PROJECTILE_SPEED) \div 5)>>}

\* the center of the player that shoots: mid-canvas, in the top left corner
\* inside the walls, and near the right wall
FlightStarts ==
    {<<CanvasWidth \div 2, CanvasHeight \div 2>>,
     <<WALL_THICKNESS + PLAYER_SIZE \div 2,
       WALL_THICKNESS + PLAYER_SIZE \div 2>>,
     <<CanvasWidth - WALL_THICKNESS - PLAYER_SIZE \div 2,
       CanvasHeight \div 2>>}

\* the delta times of the ticks
FlightDeltas == {ShortGap, FrameStep \div 2, Min(FrameStep, MAX_DELTA)}

\* the walls of the level: the border and one obstacle right of the center
FlightWalls ==
    BorderWalls \o <<Rect(CanvasWidth \div 2 + 100,
                          CanvasHeight \div 2 - OBSTACLE_SIZE \div 2,
                          OBSTACLE_SIZE, OBSTACLE_SIZE)>>

\* new Projectile(center.x, center.y, angle) handed to addEntity
NewFlight(center, velocity) ==
    [pos |-> <<center[1] - PROJECTILE_SIZE \div 2,
               center[2] - PROJECTILE_SIZE \div 2>>,
     vel |-> velocity, destroyed |-> FALSE, where |-> "pending"]

\* an off-screen test that never holds
IsOffScreenNever(p, size) == FALSE

\* Entity.isOffScreen of an entity of a game
IsOffScreen(p, size) ==
    \/ p[1] < -size \/ p[2] < -size
    \/ p[1] > CanvasWidth + size \/ p[2] > CanvasHeight + size

\* Projectile.update(dt)
ProjectileUpdate(f, dt) ==
    LET p == VecAdd(f.pos, ScaleByDt(f.vel, dt))
    IN  [f EXCEPT !.pos = p,
                  !.destroyed = IF IsOffScreen(p, PROJECTILE_SIZE) THEN TRUE
                                ELSE @]

\* Collision.checkAABB(projectile, wall) for some wall of the level
FlightOverlapsWall(f) ==
    RectOverlapsWallsExact(f.pos[1], f.pos[2], PROJECTILE_SIZE,
                           PROJECTILE_SIZE, FlightWalls)

\* a tick of a game that is not over; hit: a live hostile overlaps the
\* projectile in the collision pass
FlightLoop(f, dt, hit) ==
    LET flushed == IF f.where = "pending" THEN [f EXCEPT !.where = "live"]
                   ELSE f
        moved == IF flushed.where = "live" /\ ~flushed.destroyed
                 THEN ProjectileUpdate(flushed, dt) ELSE flushed
        kept == IF moved.where = "live" /\ moved.destroyed
                THEN [moved EXCEPT !.where = "gone"] ELSE moved
    IN  IF kept.where = "live" /\ ~kept.destroyed
           /\ (FlightOverlapsWall(kept) \/ hit)
        THEN [kept EXCEPT !.destroyed = TRUE]
        ELSE kept

InitFlight ==
    /\ GameInit /\ ColIdle
    /\ offset = <<0, 0>> /\ eOp = "none" /\ ePre = NullObj
    /\ eArg = 0 /\ eRet = FALSE
    /\ hitTimes = {} /\ ParticleIdle /\ SpawnIdle /\ QuestIdle /\ CombatIdle
    /\ RunsIdle /\ KnockIdle /\ SessionIdle /\ shooter = ShooterIdle
    /\ \E center \in FlightStarts, velocity \in FlightVelocities :
          flight = NewFlight(center, velocity)

flightRest == <<gameVars, colVars, offset, ePre, eArg, eRet, hitTimes,
                particleVars, spawnVars, questVars, combatVars, runsVars,
                knockVars, sessionVars, shooter>>

\* gameLoop with a positive delta time
FlightTick ==
    /\ \E dt \in FlightDeltas, hit \in BOOLEAN :
          flight' = FlightLoop(flight, dt, hit)
    /\ eOp' = "gameLoop"
    /\ UNCHANGED flightRest

NextFlight == FlightTick

SpecFlight == InitFlight /\ [][NextFlight]_vars

\* gameLoop requests the next frame at its end: frames keep coming
SpecFlightFair == SpecFlight /\ WF_vars(FlightTick)

\* C39: while ticks with a positive delta time keep coming and the game is
\* not over, a projectile that was added to the game is eventually flagged
\* destroyed and out of the live collection; after every tick a projectile
\* that is still live and not flagged overlaps no wall and has not left the
\* play bounds by more than its own size.
C39_ProjectileEnds ==
    /\ [](eOp = "gameLoop" /\ flight.where = "live" /\ ~flight.destroyed =>
             /\ ~FlightOverlapsWall(flight)
             /\ flight.pos[1] >= -PROJECTILE_SIZE
             /\ flight.pos[2] >= -PROJECTILE_SIZE
             /\ flight.pos[1] <= CanvasWidth + PROJECTILE_SIZE
             /\ flight.pos[2] <= CanvasHeight + PROJECTILE_SIZE)
    /\ [](flight.where = "gone" => flight.destroyed)
    /\ <>(flight.where = "gone" /\ flight.destroyed)

\* a projectile that passed the left wall between two ticks and was
\* destroyed off-screen
C39_Witness ==
    /\ flight.where = "gone" /\ flight.destroyed
    /\ flight.pos[1] < -PROJECTILE_SIZE

====
